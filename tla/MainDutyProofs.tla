---------------------------- MODULE MainDutyProofs ----------------------------
(* Theorems about MainDuty, for every number of threads and every set of duties, tasks,   *)
(* assignments, files, employees, windows and cars.                                       *)
EXTENDS MainDuty, TLAPS

USE MainDutyAssumption

------------------------------------------------------------------------------
(* The inductive invariant of any interleaving *)

Reporting == {"report.read", "report.delete", "report.insert", "hand.over"}

\* What a request in hand may rely on, whatever others do meanwhile: the decisions its own
\* rests on were taken, and so were those of the row it is about to save.
MemoryOK(m, duties, decided) ==
  /\ m.pc = "duty.save" => /\ duties[m.key].status # "unborn"
                           /\ m.row.status \in decided[m.key] \cup {"DRAFT"}
  /\ m.pc \in {"approve", "reject"} => "SENT_FOR_APPROVAL" \in decided[m.key]
  /\ m.pc \in Reporting => "APPROVED" \in decided[m.key]
  /\ m.pc \in {"report.delete", "report.insert"} => m.row.duty = m.key /\ m.row.name = "duty_report"
  /\ m.pc = "file.save" => (m.row.crews # {} => \E d \in Duties : "APPROVED" \in decided[d])
  /\ m.pc \in {"absence.swap", "replace"} => m.row.cover \in Employees

MemoriesOK == \A r \in Requests : MemoryOK(req[r], duty, taken)

\* A status other than DRAFT was given by a decision.
StatusTaken == \A d \in Duties : duty[d].status \in Decisions => duty[d].status \in taken[d]

IInv == TypeOK /\ MemoriesOK /\ StatusTaken /\ HandedWasApproved /\ Integrity

------------------------------------------------------------------------------
(* What holds besides until two requests overlap *)

\* None of the employee's assignments but those of S is at the time of the row's task.
Clear(row, S) ==
  \A b \in LiveAsgs \ S : asg[b].emp = row.emp => ~ Span(Hours(asg[b].task), Hours(row.task))

\* What a request has read is still so.
Current(m) ==
  /\ m.pc = "duty.save" => duty[m.key].status = m.row.status
  /\ m.pc \in {"clash.find", "clash.delete", "asg.insert"} =>
       m.row.task \in LiveTasks /\ m.row.emp \notin Serving(m.row.task)
  /\ m.pc = "clash.find" => m.key = Hours(m.row.task)
  /\ m.pc = "clash.delete" => Clear(m.row, m.todo)
  /\ m.pc = "asg.insert" => Clear(m.row, {})
  /\ m.pc = "asg.save" => m.key \in LiveAsgs
  /\ m.pc \in {"absence.save", "absence.swap"} => absence[m.key].status = "PENDING"
  /\ m.pc \in {"approve", "reject"} => duty[m.key].status = "SENT_FOR_APPROVAL"
  /\ m.pc \in {"send.tasks", "send.check"} => TasksOf(m.key) # {}
  /\ m.pc = "send.check" => \A t \in TasksOf(m.key) \ m.todo : Manned(t)
  /\ m.pc \in {"report.delete", "report.insert"} => m.row.crews = CrewsOf(m.key)
  /\ m.pc = "report.insert" => ReportsOf(m.key) = {}
  /\ m.pc = "hand.over" => \E f \in FileIds : /\ ReportsOf(m.key) = {f}
                                              /\ file[f].crews = CrewsOf(m.key)

\* One request is under way at most, and all it has read is current.
Serial ==
  /\ \A r, q \in Requests : ~ At(r, "idle") /\ ~ At(q, "idle") => r = q
  /\ \A r \in Requests : Current(req[r])

SInv == IInv /\ (overlapped \/ Serial)

------------------------------------------------------------------------------
(* The memories *)

LEMMA Fields ==
  ASSUME NEW m \in Request
  PROVE  /\ m.pc = "duty.save" => m.key \in Duties /\ m.row \in DutyRow
         /\ m.pc \in {"task.insert"} => m.row \in TaskRow
         /\ m.pc \in {"task.save"} => m.key \in Tasks /\ m.row \in TaskRow
         /\ m.pc \in {"clash.find", "clash.delete", "asg.insert"} => m.row \in AsgRow
         /\ m.pc = "clash.find" => m.key \in Windows
         /\ m.pc = "clash.delete" => m.todo \in SUBSET AssignIds
         /\ m.pc = "asg.save" => m.key \in AssignIds /\ m.row \in AsgRow
         /\ m.pc = "absence.insert" => m.key \in AssignIds
         /\ m.pc \in {"absence.save", "absence.swap", "replace"} =>
              m.key \in AssignIds /\ m.row \in AbsenceRow /\ m.todo = {}
         /\ m.pc = "file.save" => m.key \in FileIds /\ m.row \in FileRow
         /\ m.pc \in {"send.exists", "send.tasks", "approve", "reject"} \cup Reporting =>
              m.key \in Duties /\ m.todo = {}
         /\ m.pc = "send.check" => m.key \in Duties /\ m.todo \in SUBSET Tasks
         /\ m.pc \in {"send.exists", "send.tasks", "send.check", "approve", "reject",
                      "report.read", "hand.over"} => m.row = None
         /\ m.pc \in {"report.delete", "report.insert"} => m.row \in FileRow
         /\ m = [pc |-> m.pc, key |-> m.key, row |-> m.row, todo |-> m.todo]
BY DEF Request, Reporting, Idle

LEMMA IdleIsSound == Idle \in Request /\ \A duties, decided : MemoryOK(Idle, duties, decided)
  BY DEF Idle, Request, MemoryOK, Reporting

LEMMA IdleIsCurrent ==
  ASSUME NEW r \in Requests, req'[r].pc = "idle"
  PROVE  Current(req[r])'
BY DEF Current

\* A request looks at rows that do not change.
LEMMA CurrentKept ==
  ASSUME NEW r \in Requests, NEW n, req'[r] = n, Current(n),
         UNCHANGED <<duty, task, asg, absence, file>>
  PROVE  Current(req[r])'
<1> USE DEF LiveAsgs, LiveTasks
<1>1. CASE n.pc \in {"clash.find", "clash.delete", "asg.insert"}
  <2>1. (req[r].row.task \in LiveTasks /\ req[r].row.emp \notin Serving(req[r].row.task))'
    BY <1>1 DEF Current, Serving, AsgsOf
  <2>2. n.pc = "clash.find" => req'[r].key = Hours(req[r].row.task)'
    BY DEF Current, Hours
  <2>3. /\ n.pc = "clash.delete" => (Clear(req[r].row, req[r].todo))'
        /\ n.pc = "asg.insert" => (Clear(req[r].row, {}))'
    BY DEF Current, Clear, Hours
  <2> QED
    BY <1>1, <2>1, <2>2, <2>3 DEF Current
<1>2. CASE n.pc \in {"send.tasks", "send.check"}
  <2>1. \A t : AsgsOf(t)' = AsgsOf(t)
    BY DEF AsgsOf
  <2>2. \A t : Manned(t)' <=> Manned(t)
    BY <2>1 DEF Manned, Driven
  <2> QED
    BY <1>2, <2>2 DEF Current, TasksOf
<1>3. CASE n.pc \in {"report.delete", "report.insert", "hand.over"}
  <2>1. UNCHANGED <<CrewsOf(n.key), ReportsOf(n.key)>>
    BY DEF CrewsOf, ReportsOf, TasksOf
  <2>2. CASE n.pc \in {"report.delete", "report.insert"}
    <3>1. n.row.crews = CrewsOf(n.key)
      BY <2>2 DEF Current
    <3>2. n.pc = "report.insert" => ReportsOf(n.key) = {}
      BY DEF Current
    <3> QED
      BY <2>1, <2>2, <3>1, <3>2 DEF Current, CrewsOf, ReportsOf, TasksOf
  <2>3. CASE n.pc = "hand.over"
    BY <2>3 DEF Current, CrewsOf, ReportsOf, TasksOf
  <2> QED
    BY <1>3, <2>2, <2>3
<1>4. CASE n.pc \notin {"clash.find", "clash.delete", "asg.insert", "send.tasks", "send.check",
                       "report.delete", "report.insert", "hand.over"}
  BY <1>4 DEF Current
<1> QED
  BY <1>1, <1>2, <1>3, <1>4

LEMMA OneMemoryChanges ==
  ASSUME TypeOK, MemoriesOK, NEW r \in Requests, NEW n \in Request, Becomes(r, n),
         MemoryOK(n, duty', taken'),
         \A d \in Duties : duty[d].status # "unborn" => duty'[d].status # "unborn",
         \A d \in Duties : taken[d] \subseteq taken'[d]
  PROVE  req' \in [Requests -> Request] /\ MemoriesOK'
<1>1. req' = [req EXCEPT ![r] = n] /\ req \in [Requests -> Request]
  BY DEF Becomes, TypeOK
<1>2. ASSUME NEW q \in Requests
      PROVE  MemoryOK(req'[q], duty', taken')
  <2>1. CASE q = r
    BY <1>1, <2>1
  <2>2. CASE q # r
    <3>1. req'[q] = req[q] /\ req[q] \in Request /\ MemoryOK(req[q], duty, taken)
      BY <1>1, <2>2 DEF MemoriesOK
    <3> QED
      BY <3>1, Fields DEF MemoryOK, Reporting
  <2> QED
    BY <2>1, <2>2
<1> QED
  BY <1>1, <1>2 DEF MemoriesOK

\* The other requests are idle: the one that goes on decides what is current.
LEMMA AloneGoesOn ==
  ASSUME TypeOK, Serial, NEW r \in Requests, NEW n \in Request, Becomes(r, n),
         ~ At(r, "idle") \/ \A q \in Requests \ {r} : At(q, "idle"),
         Current(req[r])'
  PROVE  Serial'
<1>1. req' = [req EXCEPT ![r] = n] /\ req \in [Requests -> Request]
  BY DEF Becomes, TypeOK
<1>2. ASSUME NEW q \in Requests, q # r
      PROVE  req'[q].pc = "idle"
  <2>1. At(q, "idle")
    BY <1>2 DEF Serial
  <2> QED
    BY <1>1, <1>2, <2>1 DEF At
<1>3. \A q \in Requests : Current(req[q])'
  BY <1>2, IdleIsCurrent
<1> QED
  BY <1>2, <1>3 DEF Serial, At

\* The rows after a step, and the decisions.
RowsOK ==
  /\ duty    \in [Duties -> DutyRow \cup {NoDuty("unborn"), NoDuty("deleted")}]
  /\ task    \in [Tasks -> TaskRow \cup {NoTask}]
  /\ asg     \in [AssignIds -> AsgRow \cup {NoAsg}]
  /\ absence \in [AssignIds -> AbsenceRow \cup {NoAbsence}]
  /\ file    \in [FileIds -> FileRow \cup {NoFile}]
  /\ unused  \in SUBSET (Tasks \cup AssignIds \cup FileIds)
  /\ handed  \in SUBSET (Duties \X Crews)
  /\ taken   \in [Duties -> SUBSET Decisions]
  /\ StatusTaken /\ HandedWasApproved /\ Integrity

LEMMA RowsInIInv == IInv <=> RowsOK /\ req \in [Requests -> Request] /\ MemoriesOK /\ overlapped \in BOOLEAN
  BY DEF IInv, TypeOK, RowsOK

Forward ==
  /\ \A d \in Duties : duty[d].status # "unborn" => duty'[d].status # "unborn"
  /\ \A d \in Duties : taken[d] \subseteq taken'[d]

\* A request goes on to n.
LEMMA GoesOn ==
  ASSUME SInv, NEW r \in Requests, NEW n \in Request, Becomes(r, n), ~ At(r, "idle"),
         overlapped' = overlapped, RowsOK', Forward, MemoryOK(n, duty', taken'),
         ~ overlapped => Current(req[r])'
  PROVE  SInv'
<1>1. req' \in [Requests -> Request] /\ MemoriesOK'
  BY OneMemoryChanges DEF SInv, IInv, Forward
<1>2. (overlapped \/ Serial)'
  BY AloneGoesOn DEF SInv, IInv
<1>3. IInv'
  BY <1>1, RowsInIInv DEF SInv, IInv, TypeOK, RowsOK
<1> QED
  BY <1>2, <1>3 DEF SInv

\* Its last statement.
LEMMA Ends ==
  ASSUME SInv, NEW r \in Requests, Done(r), ~ At(r, "idle"), overlapped' = overlapped, RowsOK', Forward
  PROVE  SInv'
<1>1. Becomes(r, Idle) /\ req'[r].pc = "idle"
  BY DEF Done, Becomes, Idle, SInv, IInv, TypeOK
<1> QED
  BY <1>1, IdleIsSound, IdleIsCurrent, GoesOn

\* It reads or checks, and changes no row.
LEMMA RowsStay ==
  ASSUME SInv, UNCHANGED <<rows, handed, taken>>
  PROVE  RowsOK' /\ Forward
<1>1. UNCHANGED <<duty, task, asg, absence, file, unused, handed, taken>>
  BY DEF rows, plan
<1>2. StatusTaken' /\ HandedWasApproved' /\ Integrity' /\ Forward
  BY <1>1 DEF SInv, IInv, StatusTaken, HandedWasApproved, Integrity, Live, LiveTasks, LiveAsgs, Forward
<1> QED
  BY <1>1, <1>2 DEF SInv, IInv, TypeOK, RowsOK

LEMMA ReadsOn ==
  ASSUME SInv, NEW r \in Requests, NEW n \in Request, Becomes(r, n), ~ At(r, "idle"),
         UNCHANGED <<rows, handed, taken, overlapped>>, MemoryOK(n, duty, taken),
         ~ overlapped => Current(n)
  PROVE  SInv'
<1>1. RowsOK' /\ Forward
  BY RowsStay
<1>2. req'[r] = n /\ UNCHANGED <<duty, task, asg, absence, file>>
  BY DEF Becomes, SInv, IInv, TypeOK, rows, plan
<1>3. ~ overlapped => Current(req[r])'
  BY <1>2, CurrentKept
<1>4. MemoryOK(n, duty', taken')
  BY <1>2
<1> QED
  BY <1>1, <1>3, <1>4, GoesOn

LEMMA BeginSound ==
  ASSUME SInv, NEW r \in Requests, NEW n \in Request, Begin(r, n), MemoryOK(n, duty, taken),
         Current(n)
  PROVE  SInv'
<1>1. /\ At(r, "idle") /\ Becomes(r, n) /\ overlapped' = (overlapped \/ Busy(Requests \ {r}))
      /\ UNCHANGED <<rows, handed, taken>>
  BY DEF Begin
<1>2. RowsOK' /\ Forward
  BY <1>1, RowsStay
<1>3. req'[r] = n /\ UNCHANGED <<duty, task, asg, absence, file, taken>>
  BY <1>1 DEF Becomes, SInv, IInv, TypeOK, rows, plan
<1>4. Current(req[r])'
  BY <1>3, CurrentKept
<1>5. req' \in [Requests -> Request] /\ MemoriesOK'
  BY <1>1, <1>2, <1>3, OneMemoryChanges DEF SInv, IInv, Forward
<1>6. (overlapped \/ Serial)'
  <2> SUFFICES ASSUME ~ overlapped'
               PROVE  Serial'
    OBVIOUS
  <2>1. Serial /\ \A q \in Requests \ {r} : At(q, "idle")
    BY <1>1 DEF SInv, Busy
  <2> QED
    BY <1>1, <1>4, <2>1, AloneGoesOn DEF SInv, IInv
<1>7. IInv'
  BY <1>1, <1>2, <1>5, RowsInIInv DEF SInv, IInv, TypeOK, RowsOK
<1> QED
  BY <1>6, <1>7 DEF SInv

\* Steps that are not a request's: deletions and uploads count as one at the moment they happen.
LEMMA NoRequest ==
  ASSUME SInv, req' = req, overlapped' = (overlapped \/ Busy(Requests)), RowsOK', Forward
  PROVE  SInv'
<1>1. MemoriesOK'
  BY Fields DEF SInv, IInv, TypeOK, MemoriesOK, MemoryOK, Forward, Reporting
<1>2. IInv'
  BY <1>1, RowsInIInv DEF SInv, IInv, TypeOK, RowsOK
<1>3. (overlapped \/ Serial)'
  <2> SUFFICES ASSUME ~ overlapped'
               PROVE  Serial'
    OBVIOUS
  <2>1. \A r \in Requests : req'[r].pc = "idle"
    BY DEF Busy, At
  <2> QED
    BY <2>1, IdleIsCurrent DEF Serial, At
<1> QED
  BY <1>2, <1>3 DEF SInv

------------------------------------------------------------------------------
(* What the statements do to the rows *)

LEMMA HandedKept ==
  ASSUME SInv, Forward,
         \A x \in handed' : x \in handed \/ "APPROVED" \in taken'[x[1]],
         \A f \in FileIds : file'[f].crews # {} =>
           file'[f].crews = file[f].crews \/ \E d \in Duties : "APPROVED" \in taken'[d]
  PROVE  HandedWasApproved'
<1>1. /\ handed \in SUBSET (Duties \X Crews) /\ \A x \in handed : "APPROVED" \in taken[x[1]]
      /\ \A f \in FileIds : file[f].crews # {} => \E d \in Duties : "APPROVED" \in taken[d]
  BY DEF SInv, IInv, TypeOK, HandedWasApproved
<1>2. \A x \in handed : "APPROVED" \in taken'[x[1]]
  BY <1>1 DEF Forward
<1>3. \A f \in FileIds : file'[f].crews # {} => \E d \in Duties : "APPROVED" \in taken'[d]
  BY <1>1 DEF Forward
<1> QED
  BY <1>2, <1>3 DEF HandedWasApproved

\* Rows are deleted, with what hangs on them.
LEMMA Removal ==
  ASSUME SInv, NEW T \in SUBSET Tasks, NEW S \in SUBSET AssignIds, NEW G \in SUBSET FileIds,
         task' = [t \in Tasks |-> IF t \in T THEN NoTask ELSE task[t]],
         asg' = [a \in AssignIds |-> IF a \in S THEN NoAsg ELSE asg[a]],
         absence' = [a \in AssignIds |-> IF a \in S THEN NoAbsence ELSE absence[a]],
         file' = [f \in FileIds |-> IF f \in G THEN NoFile ELSE file[f]],
         \A a \in LiveAsgs : asg[a].task \in T => a \in S,
         \A t \in LiveTasks \ T : duty'[task[t].duty].status \in Status,
         \A f \in FileIds \ G : file[f].duty # None => duty'[file[f].duty].status \in Status
  PROVE  /\ task' \in [Tasks -> TaskRow \cup {NoTask}]
         /\ asg' \in [AssignIds -> AsgRow \cup {NoAsg}]
         /\ absence' \in [AssignIds -> AbsenceRow \cup {NoAbsence}]
         /\ file' \in [FileIds -> FileRow \cup {NoFile}]
         /\ Integrity'
<1>1. TypeOK /\ Integrity
  BY DEF SInv, IInv
<1>2. /\ task' \in [Tasks -> TaskRow \cup {NoTask}]
      /\ asg' \in [AssignIds -> AsgRow \cup {NoAsg}]
      /\ absence' \in [AssignIds -> AbsenceRow \cup {NoAbsence}]
      /\ file' \in [FileIds -> FileRow \cup {NoFile}]
  BY <1>1 DEF TypeOK
<1>3. /\ \A t \in LiveTasks' : t \in LiveTasks \ T /\ task'[t] = task[t]
      /\ \A t \in LiveTasks \ T : t \in LiveTasks'
      /\ \A a \in LiveAsgs' : a \in LiveAsgs \ S /\ asg'[a] = asg[a]
      /\ \A a \in LiveAsgs \ S : a \in LiveAsgs'
  BY DEF LiveTasks, LiveAsgs
<1>5. \A t \in LiveTasks' : duty'[task'[t].duty].status \in Status
  BY <1>3
<1>6. \A a \in LiveAsgs' : asg'[a].task \in LiveTasks'
  BY <1>1, <1>3 DEF Integrity
<1>7. \A a \in AssignIds : absence'[a] # NoAbsence => a \in LiveAsgs'
  BY <1>1, <1>3 DEF Integrity
<1>8. \A f \in FileIds : file'[f].duty # None => duty'[file'[f].duty].status \in Status
  BY DEF NoFile
<1>9. ASSUME NEW a \in LiveAsgs', NEW b \in LiveAsgs',
             asg'[a].task = asg'[b].task, asg'[a].emp = asg'[b].emp
      PROVE  a = b
  <2>1. a \in LiveAsgs /\ b \in LiveAsgs /\ asg'[a] = asg[a] /\ asg'[b] = asg[b]
    BY <1>3
  <2> QED
    BY <1>1, <1>9, <2>1 DEF Integrity
<1>10. Integrity'
  BY <1>5, <1>6, <1>7, <1>8, <1>9 DEF Integrity, Live
<1> QED
  BY <1>2, <1>10

\* An assignment is inserted or saved, and the unique key allows it.
LEMMA AsgWritten ==
  ASSUME SInv, NEW a \in AssignIds, NEW row \in AsgRow, row.task \in LiveTasks,
         \A b \in LiveAsgs : b # a /\ asg[b].task = row.task => asg[b].emp # row.emp,
         asg' = [asg EXCEPT ![a] = row], UNCHANGED <<duty, task, absence, file>>
  PROVE  asg' \in [AssignIds -> AsgRow \cup {NoAsg}] /\ Integrity'
<1>1. TypeOK /\ Integrity
  BY DEF SInv, IInv
<1>2. asg' \in [AssignIds -> AsgRow \cup {NoAsg}]
  BY <1>1 DEF TypeOK
<1>3. row # NoAsg
  BY DEF AsgRow, NoAsg
<1>4. /\ asg'[a] = row /\ \A b \in AssignIds : b # a => asg'[b] = asg[b]
      /\ \A b \in LiveAsgs : b \in LiveAsgs'
      /\ \A b \in LiveAsgs' : b = a \/ b \in LiveAsgs
      /\ LiveTasks' = LiveTasks
  BY <1>1, <1>3 DEF LiveAsgs, LiveTasks, TypeOK
<1>5. \A b \in LiveAsgs' : asg'[b].task \in LiveTasks
  BY <1>1, <1>4 DEF Integrity, LiveAsgs
<1>6. \A b, c \in LiveAsgs' : asg'[b].task = asg'[c].task /\ asg'[b].emp = asg'[c].emp => b = c
  <2> SUFFICES ASSUME NEW b \in LiveAsgs', NEW c \in LiveAsgs',
                      asg'[b].task = asg'[c].task, asg'[b].emp = asg'[c].emp
               PROVE  b = c
    OBVIOUS
  <2>1. CASE b # a /\ c # a
    BY <1>1, <1>4, <2>1 DEF Integrity, LiveAsgs
  <2>2. CASE b = a \/ c = a
    BY <1>4, <2>2 DEF LiveAsgs
  <2> QED
    BY <2>1, <2>2
<1>7. Integrity'
  BY <1>1, <1>4, <1>5, <1>6 DEF Integrity, Live
<1> QED
  BY <1>2, <1>7

\* A task is inserted or saved under a duty there is.
LEMMA TaskWritten ==
  ASSUME SInv, NEW t \in Tasks, NEW row \in TaskRow, Live(row.duty),
         task' = [task EXCEPT ![t] = row], UNCHANGED <<duty, asg, absence, file>>
  PROVE  task' \in [Tasks -> TaskRow \cup {NoTask}] /\ Integrity'
<1>1. TypeOK /\ Integrity
  BY DEF SInv, IInv
<1>2. row # NoTask
  BY DEF TaskRow, NoTask
<1>3. /\ task' \in [Tasks -> TaskRow \cup {NoTask}]
      /\ task'[t] = row /\ \A u \in Tasks : u # t => task'[u] = task[u]
      /\ \A u \in LiveTasks : u \in LiveTasks'
      /\ \A u \in LiveTasks' : u = t \/ u \in LiveTasks
      /\ LiveAsgs' = LiveAsgs
  BY <1>1, <1>2 DEF TypeOK, LiveTasks, LiveAsgs
<1>4. \A u \in LiveTasks' : duty[task'[u].duty].status \in Status
  BY <1>1, <1>3 DEF Integrity, Live, LiveTasks
<1>5. Integrity'
  BY <1>1, <1>3, <1>4 DEF Integrity, Live
<1> QED
  BY <1>3, <1>5

\* Each duty there is stays, or comes back.
LEMMA DutyWritten ==
  ASSUME SInv, NEW d \in Duties, NEW row \in DutyRow, duty' = [duty EXCEPT ![d] = row],
         row.status \in Decisions => row.status \in taken'[d],
         \A e \in Duties : taken[e] \subseteq taken'[e],
         UNCHANGED <<task, asg, absence, file>>
  PROVE  /\ duty' \in [Duties -> DutyRow \cup {NoDuty("unborn"), NoDuty("deleted")}]
         /\ Integrity' /\ StatusTaken' /\ Forward
<1>1. TypeOK /\ Integrity /\ StatusTaken
  BY DEF SInv, IInv
<1>2. /\ duty' \in [Duties -> DutyRow \cup {NoDuty("unborn"), NoDuty("deleted")}]
      /\ duty'[d] = row /\ row.status \in Status
      /\ \A e \in Duties : e # d => duty'[e] = duty[e]
  BY <1>1 DEF TypeOK, DutyRow
<1>3. \A e \in Duties : duty[e].status \in Status => duty'[e].status \in Status
  BY <1>2
<1>4. \A t \in LiveTasks : task[t].duty \in Duties
  BY <1>1 DEF LiveTasks, TypeOK, TaskRow, NoTask
<1>5. \A f \in FileIds : file[f].duty # None => file[f].duty \in Duties
  BY <1>1 DEF TypeOK, FileRow, NoFile
<1>6. Integrity'
  BY <1>1, <1>3, <1>4, <1>5 DEF Integrity, Live, LiveTasks, LiveAsgs
<1>7. StatusTaken' /\ Forward
  BY <1>1, <1>2 DEF StatusTaken, Forward, Status, Decisions
<1> QED
  BY <1>2, <1>6, <1>7

\* A file is written, under a duty there is or none.
LEMMA FileWritten ==
  ASSUME SInv, NEW f \in FileIds, NEW row \in FileRow, row.duty = None \/ Live(row.duty),
         row.crews # {} => \E d \in Duties : "APPROVED" \in taken[d],
         file' = [file EXCEPT ![f] = row], UNCHANGED <<plan, handed, taken>>, unused' \subseteq unused
  PROVE  RowsOK' /\ Forward
<1>1. TypeOK /\ Integrity /\ StatusTaken
  BY DEF SInv, IInv
<1>2. UNCHANGED <<duty, task, asg, absence>>
  BY DEF plan
<1>3. /\ file' \in [FileIds -> FileRow \cup {NoFile}]
      /\ file'[f] = row /\ \A g \in FileIds : g # f => file'[g] = file[g]
  BY <1>1 DEF TypeOK
<1>4. Integrity'
  BY <1>1, <1>2, <1>3 DEF Integrity, Live, LiveTasks, LiveAsgs
<1>5. Forward /\ StatusTaken'
  BY <1>1, <1>2 DEF Forward, StatusTaken
<1>6. HandedWasApproved'
  BY <1>3, <1>5, HandedKept DEF SInv, IInv, HandedWasApproved
<1> QED
  BY <1>1, <1>2, <1>3, <1>4, <1>5, <1>6 DEF RowsOK, TypeOK

------------------------------------------------------------------------------
(* Requests arrive *)

LEMMA LiveRows ==
  ASSUME SInv
  PROVE  /\ \A d \in Duties : Live(d) => duty[d] \in DutyRow
         /\ \A t \in LiveTasks : task[t] \in TaskRow /\ task[t].duty \in Duties /\ Live(task[t].duty)
                                 /\ Hours(t) \in Windows
         /\ \A a \in LiveAsgs : asg[a] \in AsgRow /\ asg[a].task \in LiveTasks
         /\ \A f \in FileIds : file[f] # NoFile => file[f] \in FileRow
<1>1. TypeOK /\ Integrity
  BY DEF SInv, IInv
<1>2. \A d \in Duties : Live(d) => duty[d] \in DutyRow
  BY <1>1 DEF TypeOK, Live, NoDuty, Status, Decisions
<1>3. \A t \in LiveTasks : task[t] \in TaskRow /\ task[t].duty \in Duties /\ Live(task[t].duty)
  BY <1>1 DEF TypeOK, Integrity, LiveTasks, TaskRow
<1>4. \A t \in LiveTasks : Hours(t) \in Windows
  BY <1>2, <1>3 DEF Hours, TaskRow, DutyRow
<1>5. \A a \in LiveAsgs : asg[a] \in AsgRow /\ asg[a].task \in LiveTasks
  BY <1>1 DEF TypeOK, Integrity, LiveAsgs
<1>6. \A f \in FileIds : file[f] # NoFile => file[f] \in FileRow
  BY <1>1 DEF TypeOK
<1> QED
  BY <1>2, <1>3, <1>4, <1>5, <1>6

LEMMA DutyEditsArrive ==
  ASSUME SInv, NEW r \in Requests, NEW d \in Duties, NEW w \in Windows,
         BeginPutDuty(r, d, w) \/ BeginPatchDuty(r, d, w)
  PROVE  SInv'
<1> DEFINE n == Memory("duty.save", d, [status |-> duty[d].status, window |-> w])
<1>1. Begin(r, n) /\ duty[d].status \in Status
  BY DEF BeginPutDuty, BeginPatchDuty, Draft, Live, Status
<1>2. n \in Request
  BY <1>1 DEF Memory, Request, DutyRow
<1>3. duty[d].status \in taken[d] \cup {"DRAFT"}
  BY <1>1 DEF SInv, IInv, StatusTaken, Status
<1>4. MemoryOK(n, duty, taken) /\ Current(n)
  BY <1>1, <1>3 DEF Memory, MemoryOK, Current, Reporting, Status, Decisions
<1> QED
  BY <1>1, <1>2, <1>4, BeginSound

LEMMA TaskEditsArrive ==
  ASSUME SInv, NEW r \in Requests, NEW t \in Tasks, NEW d \in Duties, NEW w \in Windows \cup {None},
         BeginAddTask(r, d, w) \/ BeginPutTask(r, t, w) \/ BeginPatchTask(r, t, d, w)
  PROVE  SInv'
<1>1. PICK step \in {"task.insert", "task.save"}, e \in Duties :
        Begin(r, Memory(step, IF step = "task.insert" THEN None ELSE t, [duty |-> e, window |-> w]))
  BY LiveRows DEF BeginAddTask, BeginPutTask, BeginPatchTask
<1> DEFINE n == Memory(step, IF step = "task.insert" THEN None ELSE t, [duty |-> e, window |-> w])
<1>2. n \in Request
  BY DEF Memory, Request, TaskRow
<1>3. MemoryOK(n, duty, taken) /\ Current(n)
  BY DEF Memory, MemoryOK, Current, Reporting
<1> QED
  BY <1>1, <1>2, <1>3, BeginSound

LEMMA AssignArrives ==
  ASSUME SInv, NEW r \in Requests, NEW t \in Tasks, NEW e \in Employees, NEW s \in Seats,
         BeginAssign(r, t, e, s)
  PROVE  SInv'
<1> DEFINE n == Memory("clash.find", Hours(t), [task |-> t, emp |-> e, seat |-> s])
<1>1. Begin(r, n) /\ t \in LiveTasks /\ e \notin Serving(t) /\ Hours(t) \in Windows
  BY LiveRows DEF BeginAssign
<1>2. n \in Request
  BY <1>1 DEF Memory, Request, AsgRow
<1>3. MemoryOK(n, duty, taken) /\ Current(n)
  BY <1>1 DEF Memory, MemoryOK, Current, Reporting
<1> QED
  BY <1>1, <1>2, <1>3, BeginSound

LEMMA AssignmentEditsArrive ==
  ASSUME SInv, NEW r \in Requests, NEW a \in AssignIds, NEW t \in Tasks, NEW e \in Employees,
         NEW s \in Seats, BeginPutAssignment(r, a, e, s) \/ BeginPatchAssignment(r, a, t, e, s)
  PROVE  SInv'
<1>1. PICK u \in Tasks : Begin(r, Memory("asg.save", a, [task |-> u, emp |-> e, seat |-> s]))
  BY LiveRows DEF BeginPutAssignment, BeginPatchAssignment, AsgRow
<1> DEFINE n == Memory("asg.save", a, [task |-> u, emp |-> e, seat |-> s])
<1>2. n \in Request
  BY DEF Memory, Request, AsgRow
<1>3. MemoryOK(n, duty, taken) /\ Current(n)
  BY DEF Memory, MemoryOK, Current, Reporting, BeginPutAssignment, BeginPatchAssignment
<1> QED
  BY <1>1, <1>2, <1>3, BeginSound

LEMMA AbsencesArrive ==
  ASSUME SInv, NEW r \in Requests, NEW a \in AssignIds, NEW v \in Verdicts \cup {"PENDING"},
         NEW c \in Employees \cup {None}, BeginAbsence(r, a) \/ BeginReview(r, a, v, c)
  PROVE  SInv'
<1>1. CASE BeginAbsence(r, a)
  <2> DEFINE n == Memory("absence.insert", a, None)
  <2>1. n \in Request /\ MemoryOK(n, duty, taken) /\ Current(n)
    BY DEF Memory, Request, MemoryOK, Current, Reporting
  <2> QED
    BY <1>1, <2>1, BeginSound DEF BeginAbsence
<1>2. CASE BeginReview(r, a, v, c)
  <2> DEFINE swap == v = "APPROVED" /\ c # None
             row == [status |-> v, cover |-> IF c = None THEN absence[a].cover ELSE c]
             n == Memory(IF swap THEN "absence.swap" ELSE "absence.save", a, row)
  <2>1. Begin(r, n) /\ absence[a].status = "PENDING"
    BY <1>2 DEF BeginReview
  <2>2. row \in AbsenceRow
    BY <2>1 DEF SInv, IInv, TypeOK, AbsenceRow, NoAbsence
  <2>3. n \in Request
    BY <2>2 DEF Memory, Request
  <2>4. MemoryOK(n, duty, taken) /\ Current(n)
    BY <2>1 DEF Memory, MemoryOK, Current, Reporting
  <2> QED
    BY <2>1, <2>3, <2>4, BeginSound
<1> QED
  BY <1>1, <1>2

LEMMA FileEditsArrive ==
  ASSUME SInv, NEW r \in Requests, NEW f \in FileIds, NEW d \in Duties \cup {None},
         NEW k \in {"duty_report", "other"}, BeginPutFile(r, f, d, k) \/ BeginPatchFile(r, f, d, k)
  PROVE  SInv'
<1>1. PICK crews \in {{}, file[f].crews} :
        Begin(r, Memory("file.save", f, [duty |-> d, name |-> k, crews |-> crews]))
  BY DEF BeginPutFile, BeginPatchFile
<1> DEFINE n == Memory("file.save", f, [duty |-> d, name |-> k, crews |-> crews])
<1>2. crews \in Crews /\ (crews # {} => \E e \in Duties : "APPROVED" \in taken[e])
  BY DEF SInv, IInv, TypeOK, FileRow, NoFile, HandedWasApproved, Crews
<1>3. n \in Request
  BY <1>2 DEF Memory, Request, FileRow
<1>4. MemoryOK(n, duty, taken) /\ Current(n)
  BY <1>2 DEF Memory, MemoryOK, Current, Reporting
<1> QED
  BY <1>1, <1>3, <1>4, BeginSound

LEMMA DecisionsArrive ==
  ASSUME SInv, NEW r \in Requests, NEW d \in Duties,
         BeginSend(r, d) \/ BeginApprove(r, d) \/ BeginReject(r, d)
  PROVE  SInv'
<1>1. PICK step \in {"send.exists", "approve", "reject"} :
        /\ Begin(r, Memory(step, d, None))
        /\ step # "send.exists" => duty[d].status = "SENT_FOR_APPROVAL"
  BY DEF BeginSend, BeginApprove, BeginReject
<1> DEFINE n == Memory(step, d, None)
<1>2. n \in Request
  BY DEF Memory, Request
<1>3. step # "send.exists" => "SENT_FOR_APPROVAL" \in taken[d]
  BY <1>1 DEF SInv, IInv, StatusTaken, Decisions
<1>4. MemoryOK(n, duty, taken) /\ Current(n)
  BY <1>1, <1>3 DEF Memory, MemoryOK, Current, Reporting
<1> QED
  BY <1>1, <1>2, <1>4, BeginSound

------------------------------------------------------------------------------
(* Requests read and check *)

\* What a request holds at its next statement.
LEMMA InHand ==
  ASSUME SInv, NEW r \in Requests
  PROVE  /\ req[r] \in Request /\ MemoryOK(req[r], duty, taken)
         /\ ~ overlapped => Current(req[r])
BY DEF SInv, IInv, TypeOK, MemoriesOK, Serial

LEMMA WithTodo ==
  ASSUME NEW row, NEW S
  PROVE  [Memory("clash.delete", None, row) EXCEPT !.todo = S]
           = [pc |-> "clash.delete", key |-> None, row |-> row, todo |-> S]
BY DEF Memory

LEMMA FindClashesSound ==
  ASSUME SInv, NEW r \in Requests, FindClashes(r)
  PROVE  SInv'
<1> DEFINE m == req[r]
           clashes == {a \in LiveAsgs : /\ asg[a].emp = m.row.emp /\ asg[a].task # m.row.task
                                        /\ Span(Hours(asg[a].task), m.key)}
           n == IF clashes = {} THEN Memory("asg.insert", None, m.row)
                ELSE [Memory("clash.delete", None, m.row) EXCEPT !.todo = clashes]
<1>1. m \in Request /\ m.pc = "clash.find" /\ m.row \in AsgRow
  BY InHand, Fields DEF FindClashes, At
<1>2. clashes \in SUBSET AssignIds
  BY DEF LiveAsgs
<1>3. n.pc \in {"asg.insert", "clash.delete"} /\ n.row = m.row /\ n.todo = clashes
      /\ (n.pc = "asg.insert" => clashes = {})
  BY DEF Memory
<1>4. n \in Request
  <2>1. Memory("asg.insert", None, m.row) \in Request
    BY <1>1 DEF Memory, Request
  <2>2. [pc |-> "clash.delete", key |-> None, row |-> m.row, todo |-> clashes] \in Request
    BY <1>1, <1>2 DEF Request
  <2>3. [Memory("clash.delete", None, m.row) EXCEPT !.todo = clashes]
          = [pc |-> "clash.delete", key |-> None, row |-> m.row, todo |-> clashes]
    BY WithTodo
  <2> QED
    BY <2>1, <2>2, <2>3
<1>5. MemoryOK(n, duty, taken)
  BY <1>3 DEF MemoryOK, Reporting
<1>6. ASSUME ~ overlapped
      PROVE  Current(n)
  <2>1. /\ m.pc = "clash.find" /\ Current(m)
    BY <1>6, InHand DEF FindClashes, At
  <2>2. /\ m.row.task \in LiveTasks /\ m.row.emp \notin Serving(m.row.task)
        /\ m.key = Hours(m.row.task)
    BY <2>1 DEF Current
  <2>3. \A b \in LiveAsgs : asg[b].emp = m.row.emp => asg[b].task # m.row.task
    BY <2>2 DEF Serving, AsgsOf
  <2>4. Clear(m.row, clashes)
    BY <2>2, <2>3 DEF Clear
  <2> QED
    BY <1>3, <2>2, <2>4 DEF Current
<1> QED
  BY <1>4, <1>5, <1>6, ReadsOn DEF FindClashes, At

LEMMA SendReadsSound ==
  ASSUME SInv, NEW r \in Requests, AnyTask(r) \/ ListTasks(r) \/ CheckTask(r)
  PROVE  SInv'
<1> DEFINE m == req[r]
<1>1. /\ m \in Request /\ UNCHANGED <<rows, handed, taken, overlapped>> /\ ~ At(r, "idle")
      /\ m.pc \in {"send.exists", "send.tasks", "send.check"} /\ m.key \in Duties /\ m.row = None
      /\ m.todo \in SUBSET Tasks
  BY InHand, Fields DEF AnyTask, ListTasks, CheckTask, At
<1>2. m = [pc |-> m.pc, key |-> m.key, row |-> None, todo |-> m.todo]
  BY <1>1, Fields
<1>3. CASE Done(r)
  BY <1>1, <1>3, RowsStay, Ends
<1>4. CASE AnyTask(r) /\ ~ Done(r)
  <2> DEFINE n == [m EXCEPT !.pc = "send.tasks"]
  <2>1. Becomes(r, n) /\ TasksOf(m.key) # {} /\ m.pc = "send.exists"
    BY <1>4 DEF AnyTask, At
  <2>2. m.todo = {}
    BY <1>1, <2>1, Fields
  <2>3. n = Memory("send.tasks", m.key, None)
    BY <1>2, <2>2 DEF Memory
  <2>4. n \in Request /\ MemoryOK(n, duty, taken) /\ Current(n)
    BY <1>1, <2>1, <2>3 DEF Memory, Request, MemoryOK, Current, Reporting
  <2> QED
    BY <1>1, <2>1, <2>4, ReadsOn
<1>5. CASE ListTasks(r)
  <2>3. PICK left \in SUBSET Tasks : left = TasksOf(m.key)
    BY DEF TasksOf, LiveTasks
  <2> DEFINE n == [m EXCEPT !.pc = "send.check", !.todo = left]
  <2>1. Becomes(r, n) /\ m.pc = "send.tasks"
    BY <1>5, <2>3 DEF ListTasks, At
  <2>a. m \in [pc : {"send.tasks"}, key : Duties, row : {None}, todo : SUBSET Tasks]
    BY <1>1, <1>2, <2>1
  <2>2. /\ n \in [pc : {"send.check"}, key : Duties, row : {None}, todo : SUBSET Tasks]
        /\ n.pc = "send.check" /\ n.key = m.key /\ n.todo = left
    BY <2>a
  <2>4. n \in Request /\ MemoryOK(n, duty, taken)
    BY <1>1, <2>2 DEF Request, MemoryOK, Reporting
  <2>5. ~ overlapped => Current(n)
    BY <2>1, <2>2, <2>3, InHand DEF Current
  <2> QED
    BY <1>1, <2>1, <2>4, <2>5, ReadsOn
<1>6. CASE CheckTask(r) /\ ~ Done(r)
  <2>1. PICK t \in m.todo : Manned(t) /\ Becomes(r, [m EXCEPT !.todo = @ \ {t}])
    BY <1>6 DEF CheckTask
  <2> DEFINE n == [m EXCEPT !.todo = @ \ {t}]
  <2>2. m.pc = "send.check"
    BY <1>6 DEF CheckTask, At
  <2>3. n = [pc |-> "send.check", key |-> m.key, row |-> None, todo |-> m.todo \ {t}]
    BY <1>2, <2>2
  <2>4. n \in Request /\ MemoryOK(n, duty, taken)
    BY <1>1, <2>3 DEF Request, MemoryOK, Reporting
  <2>5. ASSUME ~ overlapped
        PROVE  Current(n)
    <3>1. TasksOf(m.key) # {} /\ \A u \in TasksOf(m.key) \ m.todo : Manned(u)
      BY <2>2, <2>5, InHand DEF Current
    <3> QED
      BY <2>1, <2>3, <3>1 DEF Current
  <2> QED
    BY <1>1, <2>1, <2>4, <2>5, ReadsOn
<1> QED
  BY <1>3, <1>4, <1>5, <1>6

LEMMA ReadReportSound ==
  ASSUME SInv, NEW r \in Requests, ReadReport(r)
  PROVE  SInv'
<1> DEFINE d == req[r].key
           row == [duty |-> d, name |-> "duty_report", crews |-> CrewsOf(d)]
           n == Memory("report.delete", d, row)
<1>1. /\ Becomes(r, n) /\ ~ At(r, "idle") /\ UNCHANGED <<rows, handed, taken, overlapped>>
      /\ d \in Duties /\ "APPROVED" \in taken[d]
  BY InHand, Fields DEF ReadReport, At, MemoryOK, Reporting
<1>2. CrewsOf(d) \in Crews
  BY LiveRows DEF CrewsOf, Crews, AsgRow, LiveAsgs
<1>3. n \in Request
  BY <1>1, <1>2 DEF Memory, Request, FileRow
<1>4. MemoryOK(n, duty, taken) /\ Current(n)
  BY <1>1 DEF Memory, MemoryOK, Current, Reporting
<1> QED
  BY <1>1, <1>3, <1>4, ReadsOn

------------------------------------------------------------------------------
(* Requests save duties, and decide *)

LEMMA SaveDutySound ==
  ASSUME SInv, NEW r \in Requests, SaveDuty(r)
  PROVE  SInv'
<1> DEFINE d == req[r].key
           row == req[r].row
<1>1. /\ ~ At(r, "idle") /\ Done(r) /\ duty' = [duty EXCEPT ![d] = row]
      /\ UNCHANGED <<task, asg, absence, file, unused, handed, taken, overlapped>>
      /\ d \in Duties /\ row \in DutyRow /\ row.status \in taken[d] \cup {"DRAFT"}
  BY InHand, Fields DEF SaveDuty, At, MemoryOK
<1>2. /\ duty' \in [Duties -> DutyRow \cup {NoDuty("unborn"), NoDuty("deleted")}]
      /\ Integrity' /\ StatusTaken' /\ Forward
  <2>1. row.status \in Decisions => row.status \in taken'[d]
    BY <1>1 DEF Decisions
  <2> QED
    BY <1>1, <2>1, DutyWritten
<1>3. HandedWasApproved'
  BY <1>1, <1>2, HandedKept DEF SInv, IInv, HandedWasApproved
<1>4. RowsOK'
  BY <1>1, <1>2, <1>3 DEF RowsOK, SInv, IInv, TypeOK
<1> QED
  BY <1>1, <1>2, <1>4, Ends

\* A decision about a duty there is; next is what remains to be done.
LEMMA DecideSound ==
  ASSUME SInv, NEW r \in Requests, NEW x \in Decisions, NEW next \in Request, Decide(r, x, next),
         ~ At(r, "idle"), req[r].key \in Duties,
         next.pc \in {"idle", "report.read"},
         next.pc = "report.read" => next.key = req[r].key /\ x = "APPROVED"
  PROVE  SInv'
<1> DEFINE d == req[r].key
<1>1. CASE ~ Live(d)
  <2>1. Done(r) /\ UNCHANGED <<rows, handed, taken, overlapped>>
    BY <1>1 DEF Decide, rows, plan
  <2> QED
    BY <2>1, RowsStay, Ends
<1>2. CASE Live(d)
  <2> DEFINE row == [duty[d] EXCEPT !.status = x]
  <2>1. /\ Becomes(r, next) /\ duty' = [duty EXCEPT ![d] = row]
        /\ taken' = [taken EXCEPT ![d] = @ \cup {x}] /\ taken \in [Duties -> SUBSET Decisions]
        /\ UNCHANGED <<task, asg, absence, file, unused, handed, overlapped>>
    BY <1>2 DEF Decide, SInv, IInv, TypeOK
  <2>2. row \in DutyRow /\ row.status = x
    BY <1>2, LiveRows DEF DutyRow, Status
  <2>3. taken' \in [Duties -> SUBSET Decisions] /\ x \in taken'[d]
        /\ \A e \in Duties : taken[e] \subseteq taken'[e]
    BY <2>1
  <2>4. /\ duty' \in [Duties -> DutyRow \cup {NoDuty("unborn"), NoDuty("deleted")}]
        /\ Integrity' /\ StatusTaken' /\ Forward
    <3>1. row.status \in taken'[d] /\ UNCHANGED <<task, asg, absence, file>>
      BY <2>1, <2>2, <2>3
    <3> HIDE DEF row
    <3> QED
      BY <2>1, <2>2, <2>3, <3>1, DutyWritten
  <2>5. HandedWasApproved'
    BY <2>1, <2>3, <2>4, HandedKept DEF SInv, IInv, TypeOK, HandedWasApproved, Forward
  <2>6. RowsOK'
    BY <2>1, <2>3, <2>4, <2>5 DEF RowsOK, SInv, IInv, TypeOK
  <2>7. MemoryOK(next, duty', taken')
    BY <2>3 DEF MemoryOK, Reporting
  <2>8. Current(req[r])'
    <3>1. req'[r] = next
      BY <2>1 DEF Becomes, SInv, IInv, TypeOK
    <3> QED
      BY <3>1 DEF Current
  <2> QED
    BY <2>1, <2>4, <2>6, <2>7, <2>8, GoesOn
<1> QED
  BY <1>1, <1>2

LEMMA DecisionsSound ==
  ASSUME SInv, NEW r \in Requests, SaveSend(r) \/ SaveApprove(r) \/ SaveReject(r)
  PROVE  SInv'
<1> DEFINE m == req[r]
<1>1. m \in Request /\ m.pc \in {"send.check", "approve", "reject"} /\ ~ At(r, "idle") /\ m.key \in Duties
  BY InHand, Fields DEF SaveSend, SaveApprove, SaveReject, At
<1>2. Idle \in Request /\ Idle.pc = "idle"
  BY IdleIsSound DEF Idle
<1>3. CASE SaveSend(r) \/ SaveReject(r)
  <2>1. PICK x \in Decisions : Decide(r, x, Idle)
    BY <1>3 DEF SaveSend, SaveReject, Decisions
  <2> QED
    BY <1>1, <1>2, <2>1, DecideSound
<1>4. CASE SaveApprove(r)
  <2> DEFINE n == [m EXCEPT !.pc = "report.read"]
  <2>1. m.pc = "approve" /\ Decide(r, "APPROVED", n)
    BY <1>4 DEF SaveApprove, At
  <2>2. m \in [pc : {"approve"}, key : Duties, row : {None}, todo : {{}}]
    BY <1>1, <2>1, Fields
  <2>3. n \in [pc : {"report.read"}, key : Duties, row : {None}, todo : {{}}] /\ n.key = m.key
    BY <2>2
  <2>4. n \in Request /\ n.pc = "report.read"
    BY <2>3 DEF Request
  <2> QED
    BY <1>1, <2>1, <2>3, <2>4, DecideSound DEF Decisions
<1> QED
  BY <1>3, <1>4

\* A new duty: nothing of the others changes, nor of what a request has read.
LEMMA CreateDutySound ==
  ASSUME SInv, NEW d \in Duties, NEW w \in Windows, CreateDuty(d, w)
  PROVE  SInv'
<1> DEFINE row == [status |-> "DRAFT", window |-> w]
<1>1. /\ duty[d].status = "unborn" /\ duty' = [duty EXCEPT ![d] = row]
      /\ UNCHANGED <<task, asg, absence, file, unused, handed, req, taken, overlapped>>
  BY DEF CreateDuty
<1>2. row \in DutyRow /\ row.status \notin Decisions
  BY DEF DutyRow, Status, Decisions
<1>3. /\ duty' \in [Duties -> DutyRow \cup {NoDuty("unborn"), NoDuty("deleted")}]
      /\ Integrity' /\ StatusTaken' /\ Forward
  BY <1>1, <1>2, DutyWritten
<1>4. HandedWasApproved'
  BY <1>1, <1>3, HandedKept DEF SInv, IInv, HandedWasApproved
<1>5. RowsOK'
  BY <1>1, <1>3, <1>4 DEF RowsOK, SInv, IInv, TypeOK
<1>6. MemoriesOK'
  BY <1>1, <1>3, Fields DEF SInv, IInv, TypeOK, MemoriesOK, MemoryOK, Forward, Reporting
<1>7. IInv'
  BY <1>1, <1>5, <1>6 DEF SInv, IInv, TypeOK, RowsOK
<1>8. ASSUME NEW r \in Requests, Current(req[r])
      PROVE  Current(req[r])'
  <2> DEFINE n == req[r]
  <2>1. n \in Request /\ MemoryOK(n, duty, taken)
    BY InHand
  <2>2. /\ LiveTasks' = LiveTasks /\ LiveAsgs' = LiveAsgs
        /\ \A e \in Duties : e # d => duty'[e] = duty[e]
    BY <1>1 DEF LiveTasks, LiveAsgs, SInv, IInv, TypeOK
  <2>3. \A t \in LiveTasks : task[t].duty \in Duties /\ task[t].duty # d
    BY <1>1, LiveRows DEF Live, Status, Decisions
  <2>4. \A t \in LiveTasks : (IF task[t].window = None THEN duty'[task[t].duty].window
                              ELSE task[t].window) = Hours(t)
    BY <2>2, <2>3 DEF Hours
  <2>5. \A a \in LiveAsgs : asg[a].task \in LiveTasks
    BY LiveRows
  <2>6. CASE n.pc \in {"clash.find", "clash.delete", "asg.insert"}
    <3>1. n.row.task \in LiveTasks /\ n.row.emp \notin Serving(n.row.task)
      BY <1>8, <2>6 DEF Current
    <3>2. n.row.task \in LiveTasks' /\ n.row.emp \notin Serving(n.row.task)'
      BY <1>1, <2>2, <3>1 DEF Serving, AsgsOf
    <3>3. n.pc = "clash.find" => n.key = Hours(n.row.task)'
      BY <1>1, <1>8, <2>4, <3>1 DEF Current, Hours
    <3>4. \A S : Clear(n.row, S) => (Clear(n.row, S))'
      <4> SUFFICES ASSUME NEW S, Clear(n.row, S), NEW b \in LiveAsgs' \ S, asg'[b].emp = n.row.emp
                   PROVE  ~ Span(Hours(asg[b].task)', Hours(n.row.task)')
        BY <1>1 DEF Clear
      <4>1. b \in LiveAsgs \ S /\ asg'[b] = asg[b] /\ asg[b].task \in LiveTasks
        BY <1>1, <2>2, <2>5
      <4>2. Hours(asg[b].task)' = Hours(asg[b].task) /\ Hours(n.row.task)' = Hours(n.row.task)
        BY <1>1, <2>4, <3>1, <4>1 DEF Hours
      <4> QED
        BY <4>1, <4>2 DEF Clear
    <3> QED
      BY <1>1, <1>8, <2>6, <3>2, <3>3, <3>4 DEF Current
  <2>7. CASE n.pc \in {"send.tasks", "send.check"}
    <3>1. \A t : Manned(t)' <=> Manned(t)
      <4>1. \A t : AsgsOf(t)' = AsgsOf(t)
        BY <1>1, <2>2 DEF AsgsOf
      <4> QED
        BY <1>1, <4>1 DEF Manned, Driven
    <3> QED
      BY <1>1, <1>8, <2>2, <2>7, <3>1 DEF Current, TasksOf
  <2>8. CASE n.pc \in {"report.delete", "report.insert", "hand.over"}
    <3>1. /\ CrewsOf(n.key)' = CrewsOf(n.key) /\ ReportsOf(n.key)' = ReportsOf(n.key)
      BY <1>1, <2>2 DEF CrewsOf, ReportsOf, TasksOf
    <3> QED
      BY <1>1, <1>8, <2>8, <3>1 DEF Current
  <2>9. CASE n.pc \in {"duty.save", "approve", "reject"}
    <3>1. n.key \in Duties /\ duty[n.key].status # "unborn"
      BY <1>8, <2>1, <2>9, Fields DEF Current, MemoryOK
    <3>2. duty'[n.key] = duty[n.key]
      BY <1>1, <2>2, <3>1
    <3> QED
      BY <1>1, <1>8, <2>9, <3>2 DEF Current
  <2>10. CASE n.pc \notin {"clash.find", "clash.delete", "asg.insert", "send.tasks", "send.check",
                           "report.delete", "report.insert", "hand.over", "duty.save", "approve",
                           "reject"}
    BY <1>1, <1>8, <2>2, <2>10 DEF Current
  <2> QED
    BY <2>6, <2>7, <2>8, <2>9, <2>10
<1>9. (overlapped \/ Serial)'
  BY <1>1, <1>8 DEF SInv, Serial, At
<1> QED
  BY <1>7, <1>9 DEF SInv

------------------------------------------------------------------------------
(* Deletions *)

\* The rows of the tasks T, assignments S and files G are deleted, and no others.
Removes(T, S, G) ==
  /\ task' = [t \in Tasks |-> IF t \in T THEN NoTask ELSE task[t]]
  /\ asg' = [a \in AssignIds |-> IF a \in S THEN NoAsg ELSE asg[a]]
  /\ absence' = [a \in AssignIds |-> IF a \in S THEN NoAbsence ELSE absence[a]]
  /\ file' = [f \in FileIds |-> IF f \in G THEN NoFile ELSE file[f]]
  /\ \A a \in LiveAsgs : asg[a].task \in T => a \in S
  /\ UNCHANGED <<duty, unused, handed, taken>>

LEMMA RowsRemoved ==
  ASSUME SInv, NEW T \in SUBSET Tasks, NEW S \in SUBSET AssignIds, NEW G \in SUBSET FileIds,
         Removes(T, S, G)
  PROVE  RowsOK' /\ Forward
<1> USE DEF Removes
<1>1. \A f \in FileIds \ G : file[f].duty # None => duty'[file[f].duty].status \in Status
  BY DEF SInv, IInv, Integrity, Live
<1>2. \A t \in LiveTasks \ T : duty'[task[t].duty].status \in Status
  BY DEF SInv, IInv, Integrity, Live
<1>3. /\ task' \in [Tasks -> TaskRow \cup {NoTask}] /\ asg' \in [AssignIds -> AsgRow \cup {NoAsg}]
      /\ absence' \in [AssignIds -> AbsenceRow \cup {NoAbsence}]
      /\ file' \in [FileIds -> FileRow \cup {NoFile}] /\ Integrity'
  BY <1>1, <1>2, Removal
<1>4. Forward /\ StatusTaken'
  BY DEF Forward, StatusTaken, SInv, IInv
<1>5. \A f \in FileIds : file'[f].crews # {} => file'[f].crews = file[f].crews
  BY DEF NoFile
<1>6. HandedWasApproved'
  BY <1>4, <1>5, HandedKept DEF SInv, IInv, HandedWasApproved
<1> QED
  BY <1>3, <1>4, <1>6 DEF RowsOK, SInv, IInv, TypeOK

LEMMA DeleteDutySound ==
  ASSUME SInv, NEW d \in Duties, DeleteDuty(d)
  PROVE  SInv'
<1> DEFINE T == TasksOf(d)
           S == {a \in AssignIds : asg[a].task \in T}
           G == {f \in FileIds : file[f].duty = d}
<1>1. /\ Live(d) /\ duty' = [duty EXCEPT ![d] = NoDuty("deleted")]
      /\ overlapped' = (overlapped \/ Busy(Requests)) /\ UNCHANGED <<unused, handed, req, taken>>
  BY DEF DeleteDuty
<1>2. /\ task' = [t \in Tasks |-> IF t \in T THEN NoTask ELSE task[t]]
      /\ asg' = [a \in AssignIds |-> IF a \in S THEN NoAsg ELSE asg[a]]
      /\ absence' = [a \in AssignIds |-> IF a \in S THEN NoAbsence ELSE absence[a]]
      /\ file' = [f \in FileIds |-> IF f \in G THEN NoFile ELSE file[f]]
  BY DEF DeleteDuty, Cascade
<1>3. T \in SUBSET Tasks /\ S \in SUBSET AssignIds /\ G \in SUBSET FileIds
      /\ \A t \in LiveTasks : task[t].duty = d => t \in T
  BY DEF TasksOf, LiveTasks
<1>4. /\ duty' \in [Duties -> DutyRow \cup {NoDuty("unborn"), NoDuty("deleted")}]
      /\ duty'[d] = NoDuty("deleted") /\ \A e \in Duties : e # d => duty'[e] = duty[e]
  BY <1>1 DEF SInv, IInv, TypeOK
<1>5. /\ \A a \in LiveAsgs : asg[a].task \in T => a \in S
      /\ \A t \in LiveTasks \ T : duty'[task[t].duty].status \in Status
  BY <1>3, <1>4, LiveRows DEF LiveAsgs, Live
<1>6. \A f \in FileIds \ G : file[f].duty # None => duty'[file[f].duty].status \in Status
  <2>1. \A f \in FileIds : file[f].duty # None => file[f].duty \in Duties /\ Live(file[f].duty)
    BY DEF SInv, IInv, TypeOK, Integrity, FileRow, NoFile
  <2> QED
    BY <1>4, <2>1 DEF Live
<1>7. /\ task' \in [Tasks -> TaskRow \cup {NoTask}] /\ asg' \in [AssignIds -> AsgRow \cup {NoAsg}]
      /\ absence' \in [AssignIds -> AbsenceRow \cup {NoAbsence}]
      /\ file' \in [FileIds -> FileRow \cup {NoFile}] /\ Integrity'
  <2> HIDE DEF T, S, G
  <2> QED
    BY <1>2, <1>3, <1>5, <1>6, Removal
<1>8. Forward /\ StatusTaken'
  BY <1>1, <1>4 DEF Forward, StatusTaken, SInv, IInv, TypeOK, NoDuty, Decisions
<1>9. \A f \in FileIds : file'[f].crews # {} => file'[f].crews = file[f].crews
  BY <1>2 DEF NoFile
<1>10. HandedWasApproved'
  BY <1>1, <1>8, <1>9, HandedKept DEF SInv, IInv, HandedWasApproved
<1>11. RowsOK'
  BY <1>1, <1>4, <1>7, <1>8, <1>10 DEF RowsOK, SInv, IInv, TypeOK
<1> QED
  BY <1>1, <1>8, <1>11, NoRequest

LEMMA DeletionsSound ==
  ASSUME SInv, \/ \E t \in Tasks : DeleteTask(t)
               \/ \E a \in AssignIds : DeleteAssignment(a)
               \/ \E f \in FileIds : DeleteFile(f)
  PROVE  SInv'
<1>1. /\ task \in [Tasks -> TaskRow \cup {NoTask}] /\ asg \in [AssignIds -> AsgRow \cup {NoAsg}]
      /\ absence \in [AssignIds -> AbsenceRow \cup {NoAbsence}]
      /\ file \in [FileIds -> FileRow \cup {NoFile}]
  BY DEF SInv, IInv, TypeOK
<1>2. ASSUME NEW t \in Tasks, DeleteTask(t)
      PROVE  RowsOK' /\ Forward
  <2> DEFINE S == {a \in AssignIds : asg[a].task \in {t}}
  <2>1. /\ task' = [u \in Tasks |-> IF u \in {t} THEN NoTask ELSE task[u]]
        /\ asg' = [a \in AssignIds |-> IF a \in S THEN NoAsg ELSE asg[a]]
        /\ absence' = [a \in AssignIds |-> IF a \in S THEN NoAbsence ELSE absence[a]]
        /\ UNCHANGED <<duty, file, unused, handed, taken>>
    BY <1>2 DEF DeleteTask, Cascade
  <2>2. file' = [f \in FileIds |-> IF f \in {} THEN NoFile ELSE file[f]]
    BY <1>1, <2>1
  <2>3. \A a \in LiveAsgs : asg[a].task \in {t} => a \in S
    BY DEF LiveAsgs
  <2>4. Removes({t}, S, {})
    BY <2>1, <2>2, <2>3 DEF Removes
  <2> QED
    BY <2>4, RowsRemoved
<1>3. ASSUME NEW a \in AssignIds, DeleteAssignment(a)
      PROVE  RowsOK' /\ Forward
  <2>1. /\ asg' = [asg EXCEPT ![a] = NoAsg] /\ absence' = [absence EXCEPT ![a] = NoAbsence]
        /\ UNCHANGED <<duty, task, file, unused, handed, taken>>
    BY <1>3 DEF DeleteAssignment
  <2>2. /\ asg' = [b \in AssignIds |-> IF b \in {a} THEN NoAsg ELSE asg[b]]
        /\ absence' = [b \in AssignIds |-> IF b \in {a} THEN NoAbsence ELSE absence[b]]
    BY <1>1, <2>1
  <2>3. /\ task' = [t \in Tasks |-> IF t \in {} THEN NoTask ELSE task[t]]
        /\ file' = [f \in FileIds |-> IF f \in {} THEN NoFile ELSE file[f]]
    BY <1>1, <2>1
  <2>4. Removes({}, {a}, {})
    BY <2>1, <2>2, <2>3 DEF Removes
  <2> QED
    BY <2>4, RowsRemoved
<1>5. ASSUME NEW f \in FileIds, DeleteFile(f)
      PROVE  RowsOK' /\ Forward
  <2>1. /\ file' = [file EXCEPT ![f] = NoFile]
        /\ UNCHANGED <<duty, task, asg, absence, unused, handed, taken>>
    BY <1>5 DEF DeleteFile, plan
  <2>2. file' = [g \in FileIds |-> IF g \in {f} THEN NoFile ELSE file[g]]
    BY <1>1, <2>1
  <2>3. /\ task' = [t \in Tasks |-> IF t \in {} THEN NoTask ELSE task[t]]
        /\ asg' = [b \in AssignIds |-> IF b \in {} THEN NoAsg ELSE asg[b]]
        /\ absence' = [b \in AssignIds |-> IF b \in {} THEN NoAbsence ELSE absence[b]]
    BY <1>1, <2>1
  <2>4. Removes({}, {}, {f})
    BY <2>1, <2>2, <2>3 DEF Removes
  <2> QED
    BY <2>4, RowsRemoved
<1>4. req' = req /\ overlapped' = (overlapped \/ Busy(Requests))
  BY DEF DeleteTask, DeleteAssignment, DeleteFile
<1> QED
  BY <1>2, <1>3, <1>4, <1>5, NoRequest

\* The clashing assignments; none is left in the way of the new one.
LEMMA DeleteClashesSound ==
  ASSUME SInv, NEW r \in Requests, DeleteClashes(r)
  PROVE  SInv'
<1> DEFINE m == req[r]
           S == m.todo
           n == Memory("asg.insert", None, m.row)
<1>1. /\ m.pc = "clash.delete" /\ S \in SUBSET AssignIds /\ m.row \in AsgRow
      /\ asg' = [a \in AssignIds |-> IF a \in S THEN NoAsg ELSE asg[a]]
      /\ absence' = [a \in AssignIds |-> IF a \in S THEN NoAbsence ELSE absence[a]]
      /\ Becomes(r, n) /\ UNCHANGED <<duty, task, file, unused, handed, taken, overlapped>>
  BY InHand, Fields DEF DeleteClashes, At
<1>2. /\ task' = [t \in Tasks |-> IF t \in {} THEN NoTask ELSE task[t]]
      /\ file' = [f \in FileIds |-> IF f \in {} THEN NoFile ELSE file[f]]
  BY <1>1 DEF SInv, IInv, TypeOK
<1>3. RowsOK' /\ Forward
  <2>1. Removes({}, S, {})
    BY <1>1, <1>2 DEF Removes
  <2> QED
    BY <1>1, <2>1, RowsRemoved
<1>4. n \in Request /\ MemoryOK(n, duty', taken')
  BY <1>1 DEF Memory, Request, MemoryOK, Reporting
<1>5. ASSUME ~ overlapped
      PROVE  Current(req[r])'
  <2>1. /\ m.row.task \in LiveTasks /\ m.row.emp \notin Serving(m.row.task) /\ Clear(m.row, S)
    BY <1>1, <1>5, InHand DEF Current
  <2>2. \A b \in LiveAsgs' : b \in LiveAsgs \ S /\ asg'[b] = asg[b]
    BY <1>1 DEF LiveAsgs
  <2>3. m.row.emp \notin {asg'[b].emp : b \in {c \in LiveAsgs' : asg'[c].task = m.row.task}}
    BY <2>1, <2>2 DEF Serving, AsgsOf
  <2>4. \A b \in LiveAsgs' : asg'[b].emp = m.row.emp =>
          ~ Span(Hours(asg'[b].task), Hours(m.row.task))
    BY <2>1, <2>2 DEF Clear
  <2>5. req'[r] = n /\ n.pc = "asg.insert" /\ n.row = m.row
    BY <1>1 DEF Memory, Becomes, SInv, IInv, TypeOK
  <2>6. (req[r].row.task \in LiveTasks /\ req[r].row.emp \notin Serving(req[r].row.task))'
    <3>1. req'[r].row.task \in LiveTasks'
      BY <1>1, <2>1, <2>5 DEF LiveTasks
    <3> HIDE DEF n, S
    <3>2. (req[r].row.emp \notin Serving(req[r].row.task))'
      BY <2>3, <2>5 DEF Serving, AsgsOf
    <3> QED
      BY <3>1, <3>2
  <2>7. (Clear(req[r].row, {}))'
    BY <1>1, <2>4, <2>5 DEF Clear, Hours
  <2> QED
    BY <2>5, <2>6, <2>7 DEF Current
<1> QED
  BY <1>1, <1>3, <1>4, <1>5, GoesOn DEF At

------------------------------------------------------------------------------
(* Requests save tasks, assignments and absence requests *)

LEMMA TaskSavesSound ==
  ASSUME SInv, NEW r \in Requests, InsertTask(r) \/ SaveTask(r)
  PROVE  SInv'
<1> DEFINE m == req[r]
<1>1. /\ ~ At(r, "idle") /\ Done(r) /\ UNCHANGED <<duty, asg, absence, file, handed, taken, overlapped>>
      /\ m.row \in TaskRow /\ unused' \subseteq unused
      /\ m.pc = "task.save" => m.key \in Tasks
  BY InHand, Fields DEF InsertTask, SaveTask, At
<1>2. task' = task \/ \E t \in Tasks : task' = [task EXCEPT ![t] = m.row] /\ Live(m.row.duty)
  <2>1. task \in [Tasks -> TaskRow \cup {NoTask}]
    BY DEF SInv, IInv, TypeOK
  <2>2. CASE InsertTask(r)
    BY <2>2 DEF InsertTask
  <2>3. CASE SaveTask(r)
    BY <1>1, <2>1, <2>3 DEF SaveTask, At
  <2> QED
    BY <2>2, <2>3
<1>3. task' \in [Tasks -> TaskRow \cup {NoTask}] /\ Integrity'
  <2>1. CASE task' = task
    BY <1>1, <2>1 DEF SInv, IInv, TypeOK, Integrity, Live, LiveTasks, LiveAsgs
  <2> QED
    BY <1>1, <1>2, <2>1, TaskWritten
<1>4. Forward /\ StatusTaken'
  BY <1>1 DEF Forward, StatusTaken, SInv, IInv
<1>5. HandedWasApproved'
  BY <1>1, <1>4, HandedKept DEF SInv, IInv, HandedWasApproved
<1>6. RowsOK'
  BY <1>1, <1>3, <1>4, <1>5 DEF RowsOK, SInv, IInv, TypeOK
<1> QED
  BY <1>1, <1>4, <1>6, Ends

\* What the unique key lets a request write.
LEMMA AssignmentSavesSound ==
  ASSUME SInv, NEW r \in Requests, InsertAssignment(r) \/ SaveAssignment(r) \/ Replace(r)
  PROVE  SInv'
<1> DEFINE m == req[r]
<1>1. /\ ~ At(r, "idle") /\ Done(r) /\ UNCHANGED <<duty, task, absence, file, handed, taken, overlapped>>
      /\ unused' \subseteq unused /\ m \in Request
  BY InHand DEF InsertAssignment, SaveAssignment, Replace, At
<1>2. asg \in [AssignIds -> AsgRow \cup {NoAsg}]
  BY DEF SInv, IInv, TypeOK
<1>3. \/ asg' = asg
      \/ \E a \in AssignIds, row \in AsgRow :
           /\ asg' = [asg EXCEPT ![a] = row] /\ row.task \in LiveTasks
           /\ \A b \in LiveAsgs : b # a /\ asg[b].task = row.task => asg[b].emp # row.emp
  <2>1. CASE InsertAssignment(r)
    <3>1. m.row \in AsgRow
      BY <1>1, <2>1, Fields DEF InsertAssignment, At
    <3>2. CASE asg' = asg
      BY <3>2
    <3>3. CASE asg' # asg
      <4>1. PICK a \in AssignIds : asg' = [asg EXCEPT ![a] = m.row]
        BY <2>1, <3>3 DEF InsertAssignment
      <4>2. Accepted(None, m.row)
        BY <2>1, <3>3 DEF InsertAssignment
      <4>3. /\ m.row.task \in LiveTasks
            /\ \A b \in LiveAsgs : asg[b].task = m.row.task => asg[b].emp # m.row.emp
        BY <4>2 DEF Accepted, AsgsOf, LiveAsgs
      <4> QED
        BY <3>1, <4>1, <4>3
    <3> QED
      BY <3>2, <3>3
  <2>2. CASE SaveAssignment(r)
    <3>1. m.row \in AsgRow /\ m.key \in AssignIds
      BY <1>1, <2>2, Fields DEF SaveAssignment, At
    <3>2. CASE Accepted(m.key, m.row)
      <4>1. asg' = [asg EXCEPT ![m.key] = m.row]
        BY <2>2, <3>2 DEF SaveAssignment
      <4>2. /\ m.row.task \in LiveTasks
            /\ \A b \in LiveAsgs : b # m.key /\ asg[b].task = m.row.task => asg[b].emp # m.row.emp
        BY <3>2 DEF Accepted, AsgsOf
      <4> QED
        BY <3>1, <4>1, <4>2
    <3>3. CASE ~ Accepted(m.key, m.row)
      BY <1>2, <2>2, <3>1, <3>3 DEF SaveAssignment
    <3> QED
      BY <3>2, <3>3
  <2>3. CASE Replace(r)
    <3> DEFINE a == m.key
               row == [asg[a] EXCEPT !.emp = m.row.cover]
               fits == a \in LiveAsgs /\ Accepted(a, [task |-> asg[a].task, emp |-> m.row.cover])
    <3>1. a \in AssignIds /\ m.row.cover \in Employees
      BY <1>1, <2>3, InHand, Fields DEF Replace, At, MemoryOK
    <3>2. asg' = [asg EXCEPT ![a] = IF fits THEN row ELSE @]
      BY <2>3 DEF Replace
    <3>3. CASE fits
      <4>1. asg[a] \in AsgRow
        BY <3>3, LiveRows
      <4>2. row \in AsgRow /\ row.task = asg[a].task /\ row.emp = m.row.cover
        BY <3>1, <4>1 DEF AsgRow
      <4>3. /\ asg[a].task \in LiveTasks
            /\ \A b \in LiveAsgs : b # a /\ asg[b].task = asg[a].task => asg[b].emp # m.row.cover
        BY <3>3 DEF Accepted, AsgsOf
      <4>4. asg' = [asg EXCEPT ![a] = row]
        BY <3>2, <3>3
      <4>5. \A b \in LiveAsgs : b # a /\ asg[b].task = row.task => asg[b].emp # row.emp
        BY <4>2, <4>3
      <4>6. row.task \in LiveTasks
        BY <4>2, <4>3
      <4> HIDE DEF row, a
      <4> QED
        BY <3>1, <4>2, <4>4, <4>5, <4>6
    <3>4. CASE ~ fits
      BY <1>2, <3>1, <3>2, <3>4
    <3> QED
      BY <3>3, <3>4
  <2> QED
    BY <2>1, <2>2, <2>3
<1>4. asg' \in [AssignIds -> AsgRow \cup {NoAsg}] /\ Integrity'
  <2>1. CASE asg' = asg
    BY <1>1, <1>2, <2>1 DEF SInv, IInv, Integrity, Live, LiveTasks, LiveAsgs
  <2> QED
    BY <1>1, <1>3, <2>1, AsgWritten
<1>5. Forward /\ StatusTaken'
  BY <1>1 DEF Forward, StatusTaken, SInv, IInv
<1>6. HandedWasApproved'
  BY <1>1, <1>5, HandedKept DEF SInv, IInv, HandedWasApproved
<1>7. RowsOK'
  BY <1>1, <1>4, <1>5, <1>6 DEF RowsOK, SInv, IInv, TypeOK
<1> QED
  BY <1>1, <1>5, <1>7, Ends

\* An absence request is written only about an assignment there is.
LEMMA AbsenceSavesSound ==
  ASSUME SInv, NEW r \in Requests, InsertAbsence(r) \/ SaveReview(r)
  PROVE  SInv'
<1> DEFINE m == req[r]
           a == m.key
<1>1. /\ ~ At(r, "idle") /\ UNCHANGED <<duty, task, asg, file, unused, handed, taken, overlapped>>
      /\ m \in Request /\ a \in AssignIds
  BY InHand, Fields DEF InsertAbsence, SaveReview, At
<1>2. absence \in [AssignIds -> AbsenceRow \cup {NoAbsence}]
  BY DEF SInv, IInv, TypeOK
<1>3. \E row \in AbsenceRow : absence' = [absence EXCEPT ![a] = IF a \in LiveAsgs THEN row ELSE @]
                              \/ absence' = absence
  <2>1. CASE InsertAbsence(r)
    <3>1. [status |-> "PENDING", cover |-> None] \in AbsenceRow
      BY DEF AbsenceRow
    <3> QED
      BY <1>1, <1>2, <2>1, <3>1 DEF InsertAbsence
  <2>2. CASE SaveReview(r)
    <3>1. m.row \in AbsenceRow
      BY <1>1, <2>2, Fields DEF SaveReview
    <3> QED
      BY <2>2, <3>1 DEF SaveReview
  <2> QED
    BY <2>1, <2>2
<1>4. /\ absence' \in [AssignIds -> AbsenceRow \cup {NoAbsence}]
      /\ \A b \in AssignIds : absence'[b] # NoAbsence => absence[b] # NoAbsence \/ b \in LiveAsgs
  BY <1>1, <1>2, <1>3
<1>5. Integrity'
  BY <1>1, <1>4 DEF SInv, IInv, Integrity, Live, LiveTasks, LiveAsgs
<1>6. Forward /\ StatusTaken'
  BY <1>1 DEF Forward, StatusTaken, SInv, IInv
<1>7. HandedWasApproved'
  BY <1>1, <1>6, HandedKept DEF SInv, IInv, HandedWasApproved
<1>8. RowsOK'
  BY <1>1, <1>4, <1>5, <1>6, <1>7 DEF RowsOK, SInv, IInv, TypeOK
<1>9. CASE Done(r)
  BY <1>1, <1>6, <1>8, <1>9, Ends
<1>10. CASE SaveReview(r) /\ ~ Done(r)
  <2> DEFINE n == [m EXCEPT !.pc = "replace"]
  <2>1. Becomes(r, n) /\ m.pc = "absence.swap"
    BY <1>10 DEF SaveReview, At
  <2>2. m \in [pc : {"absence.swap"}, key : AssignIds, row : AbsenceRow, todo : {{}}]
    BY <1>1, <2>1, Fields
  <2>3. /\ n \in [pc : {"replace"}, key : AssignIds, row : AbsenceRow, todo : {{}}]
        /\ n.pc = "replace" /\ n.row = m.row
    BY <2>2
  <2>4. n \in Request
    BY <2>3 DEF Request
  <2>5. MemoryOK(n, duty', taken')
    BY <2>1, <2>3, InHand DEF MemoryOK, Reporting
  <2>6. Current(req[r])'
    <3>1. req'[r] = n
      BY <2>1 DEF Becomes, SInv, IInv, TypeOK
    <3> QED
      BY <2>3, <3>1 DEF Current
  <2> QED
    BY <1>1, <1>6, <1>8, <2>1, <2>4, <2>5, <2>6, GoesOn
<1> QED
  BY <1>9, <1>10 DEF InsertAbsence

------------------------------------------------------------------------------
(* Files, reports and the hand-over *)

LEMMA UploadSound ==
  ASSUME SInv, NEW d \in Duties, NEW k \in {"duty_report", "other"}, UploadFile(d, k)
  PROVE  SInv'
<1> DEFINE row == [duty |-> d, name |-> k, crews |-> {}]
<1>1. PICK f \in FileIds : file' = [file EXCEPT ![f] = row] /\ unused' = unused \ {f}
  BY DEF UploadFile
<1>2. /\ Live(d) /\ overlapped' = (overlapped \/ Busy(Requests)) /\ UNCHANGED <<plan, handed, req, taken>>
  BY DEF UploadFile
<1>3. row \in FileRow /\ row.crews = {} /\ row.duty = d
  BY DEF FileRow, Crews
<1>4. RowsOK' /\ Forward
  BY <1>1, <1>2, <1>3, FileWritten
<1> QED
  BY <1>2, <1>4, NoRequest

LEMMA SaveFileSound ==
  ASSUME SInv, NEW r \in Requests, SaveFile(r)
  PROVE  SInv'
<1> DEFINE m == req[r]
           kept == m.row.duty = None \/ Live(m.row.duty)
<1>1. /\ ~ At(r, "idle") /\ Done(r) /\ UNCHANGED <<plan, unused, handed, taken, overlapped>>
      /\ m.key \in FileIds /\ m.row \in FileRow
      /\ m.row.crews # {} => \E d \in Duties : "APPROVED" \in taken[d]
  BY InHand, Fields DEF SaveFile, At, MemoryOK
<1>2. CASE kept
  <2>1. file' = [file EXCEPT ![m.key] = m.row]
    BY <1>2 DEF SaveFile
  <2>2. RowsOK' /\ Forward
    BY <1>1, <1>2, <2>1, FileWritten
  <2> QED
    BY <1>1, <2>2, Ends
<1>3. CASE ~ kept
  <2>1. file' = file
    BY <1>3 DEF SaveFile, SInv, IInv, TypeOK
  <2>2. UNCHANGED <<rows, handed, taken>>
    BY <1>1, <2>1 DEF rows
  <2> QED
    BY <1>1, <2>2, RowsStay, Ends
<1> QED
  BY <1>2, <1>3

\* The reports there were go first.
LEMMA DeleteReportsSound ==
  ASSUME SInv, NEW r \in Requests, DeleteReports(r)
  PROVE  SInv'
<1> DEFINE m == req[r]
           d == m.key
           n == [m EXCEPT !.pc = "report.insert"]
<1>1. /\ m \in Request /\ m.pc = "report.delete" /\ Becomes(r, n)
      /\ file' = [f \in FileIds |-> IF f \in ReportsOf(d) THEN NoFile ELSE file[f]]
      /\ UNCHANGED <<plan, unused, handed, taken, overlapped>>
  BY InHand DEF DeleteReports, At
<1>2. UNCHANGED <<duty, task, asg, absence>>
  BY <1>1 DEF plan
<1>3. RowsOK' /\ Forward
  <2>1. PICK G \in SUBSET FileIds : G = ReportsOf(d)
    BY DEF ReportsOf
  <2>2. /\ task' = [t \in Tasks |-> IF t \in {} THEN NoTask ELSE task[t]]
        /\ asg' = [b \in AssignIds |-> IF b \in {} THEN NoAsg ELSE asg[b]]
        /\ absence' = [b \in AssignIds |-> IF b \in {} THEN NoAbsence ELSE absence[b]]
    BY <1>2 DEF SInv, IInv, TypeOK
  <2>3. Removes({}, {}, G)
    BY <1>1, <1>2, <2>1, <2>2 DEF Removes
  <2> QED
    BY <2>3, RowsRemoved
<1>4. m \in [pc : {"report.delete"}, key : Duties, row : FileRow, todo : {{}}]
  BY <1>1 DEF Request, Idle
<1>5. /\ n \in [pc : {"report.insert"}, key : Duties, row : FileRow, todo : {{}}]
      /\ n.pc = "report.insert" /\ n.row = m.row /\ n.key = d
  BY <1>4
<1>6. n \in Request
  BY <1>5 DEF Request
<1>7. MemoryOK(n, duty', taken')
  BY <1>1, <1>5, InHand DEF MemoryOK, Reporting
<1>8. ASSUME ~ overlapped
      PROVE  Current(req[r])'
  <2>1. m.row.crews = CrewsOf(d)
    BY <1>1, <1>8, InHand DEF Current
  <2>2. ReportsOf(d)' = {} /\ CrewsOf(d)' = CrewsOf(d)
    <3>1. \A f \in FileIds : ~ (file'[f].duty = d /\ file'[f].name = "duty_report")
      BY <1>1, <1>4 DEF ReportsOf, NoFile
    <3>2. m.key \in Duties /\ req'[r].key = d
      BY <1>1, <1>4, <1>5 DEF Becomes, SInv, IInv, TypeOK
    <3> QED
      BY <1>2, <3>1, <3>2 DEF ReportsOf, CrewsOf, LiveAsgs, LiveTasks, TasksOf
  <2>3. req'[r] = n
    BY <1>1 DEF Becomes, SInv, IInv, TypeOK
  <2> QED
    BY <1>5, <2>1, <2>2, <2>3 DEF Current
<1> QED
  BY <1>1, <1>3, <1>6, <1>7, <1>8, GoesOn DEF At

\* The new report is the only one, and lists the crews.
LEMMA InsertReportSound ==
  ASSUME SInv, NEW r \in Requests, InsertReport(r)
  PROVE  SInv'
<1> DEFINE m == req[r]
           d == m.key
           n == Memory("hand.over", d, None)
<1>1. /\ m \in Request /\ m.pc = "report.insert" /\ ~ At(r, "idle") /\ d \in Duties
      /\ m.row \in FileRow /\ m.row.duty = d /\ m.row.name = "duty_report" /\ "APPROVED" \in taken[d]
      /\ UNCHANGED <<plan, handed, taken, overlapped>>
  BY InHand, Fields DEF InsertReport, At, MemoryOK, Reporting
<1>2. CASE Done(r) /\ UNCHANGED <<file, unused>>
  <2>1. UNCHANGED <<rows, handed, taken>>
    BY <1>1, <1>2 DEF rows
  <2> QED
    BY <1>1, <1>2, <2>1, RowsStay, Ends
<1>3. CASE ~ (Done(r) /\ UNCHANGED <<file, unused>>)
  <2>1. PICK f \in FileIds : /\ file' = [file EXCEPT ![f] = m.row] /\ unused' = unused \ {f}
                             /\ Becomes(r, n) /\ Live(d)
    BY <1>3 DEF InsertReport
  <2>2. RowsOK' /\ Forward
    BY <1>1, <2>1, FileWritten
  <2>3. n \in Request /\ n.pc = "hand.over" /\ n.key = d
    BY <1>1 DEF Memory, Request
  <2>4. MemoryOK(n, duty', taken')
    BY <1>1, <2>3 DEF MemoryOK, Reporting
  <2>5. ASSUME ~ overlapped
        PROVE  Current(req[r])'
    <3>1. m.row.crews = CrewsOf(d) /\ ReportsOf(d) = {}
      BY <1>1, <2>5, InHand DEF Current
    <3>2. file'[f] = m.row /\ \A g \in FileIds : g # f => file'[g] = file[g]
      BY <2>1 DEF SInv, IInv, TypeOK
    <3>3. {g \in FileIds : file'[g].duty = d /\ file'[g].name = "duty_report"} = {f}
      BY <1>1, <3>1, <3>2 DEF ReportsOf
    <3>4. UNCHANGED <<task, asg>>
      BY <1>1 DEF plan
    <3>5. req'[r] = n
      BY <2>1 DEF Becomes, SInv, IInv, TypeOK
    <3>6. ReportsOf(req[r].key)' = {f}
      BY <2>3, <3>3, <3>5 DEF ReportsOf
    <3>7. CrewsOf(req[r].key)' = CrewsOf(d)
      BY <2>3, <3>4, <3>5 DEF CrewsOf, LiveAsgs, LiveTasks, TasksOf
    <3> QED
      BY <2>3, <3>1, <3>2, <3>5, <3>6, <3>7 DEF Current
  <2> QED
    BY <1>1, <2>1, <2>2, <2>3, <2>4, <2>5, GoesOn
<1> QED
  BY <1>2, <1>3

LEMMA HandOverSound ==
  ASSUME SInv, NEW r \in Requests, HandOver(r)
  PROVE  SInv'
<1> DEFINE d == req[r].key
<1>1. /\ ~ At(r, "idle") /\ Done(r) /\ UNCHANGED <<rows, taken, overlapped>>
      /\ handed' = handed \cup {<<d, CrewsOf(d)>>} /\ d \in Duties /\ "APPROVED" \in taken[d]
  BY InHand, Fields DEF HandOver, Message, At, MemoryOK, Reporting
<1>2. UNCHANGED <<duty, task, asg, absence, file, unused, taken>>
  BY <1>1 DEF rows, plan
<1>3. CrewsOf(d) \in Crews
  BY LiveRows DEF CrewsOf, Crews, AsgRow, LiveAsgs
<1>4. handed' \in SUBSET (Duties \X Crews)
  BY <1>1, <1>3 DEF SInv, IInv, TypeOK
<1>5. Forward /\ StatusTaken'
  BY <1>2 DEF Forward, StatusTaken, SInv, IInv
<1>6. HandedWasApproved'
  BY <1>1, <1>2, <1>5, HandedKept
<1>7. Integrity'
  BY <1>2 DEF SInv, IInv, Integrity, Live, LiveTasks, LiveAsgs
<1>8. RowsOK'
  BY <1>2, <1>4, <1>5, <1>6, <1>7 DEF RowsOK, SInv, IInv, TypeOK
<1> QED
  BY <1>1, <1>5, <1>8, Ends

LEMMA AbortSound ==
  ASSUME SInv, NEW r \in Requests, Abort(r)
  PROVE  SInv'
BY RowsStay, Ends DEF Abort

------------------------------------------------------------------------------
(* The invariant *)

LEMMA SInvInitially == Init => SInv
<1> SUFFICES ASSUME Init
             PROVE  SInv
  OBVIOUS
<1>1. /\ duty \in [Duties -> DutyRow \cup {NoDuty("unborn"), NoDuty("deleted")}]
      /\ task \in [Tasks -> TaskRow \cup {NoTask}] /\ asg \in [AssignIds -> AsgRow \cup {NoAsg}]
      /\ absence \in [AssignIds -> AbsenceRow \cup {NoAbsence}] /\ file \in [FileIds -> FileRow \cup {NoFile}]
  BY DEF Init
<1>2. /\ unused \in SUBSET (Tasks \cup AssignIds \cup FileIds) /\ handed \in SUBSET (Duties \X Crews)
      /\ taken \in [Duties -> SUBSET Decisions] /\ overlapped \in BOOLEAN
  BY DEF Init
<1>3. req \in [Requests -> Request] /\ MemoriesOK
  BY IdleIsSound DEF Init, MemoriesOK
<1>4. StatusTaken /\ HandedWasApproved /\ Integrity
  <2>1. StatusTaken
    BY DEF Init, StatusTaken, NoDuty, Decisions
  <2>2. LiveTasks = {} /\ LiveAsgs = {}
    BY DEF Init, LiveTasks, LiveAsgs
  <2>3. HandedWasApproved
    BY DEF Init, HandedWasApproved, NoFile
  <2> QED
    BY <2>1, <2>2, <2>3 DEF Init, Integrity, NoFile
<1>5. Serial
  BY DEF Init, Serial, Current, At, Idle
<1> QED
  BY <1>1, <1>2, <1>3, <1>4, <1>5 DEF SInv, IInv, TypeOK

LEMMA SInvPreserved == SInv /\ [Next]_vars => SInv'
<1> SUFFICES ASSUME SInv, [Next]_vars
             PROVE  SInv'
  OBVIOUS
<1>1. CASE UNCHANGED vars
  <2>1. UNCHANGED <<duty, task, asg, absence, file, req, overlapped>> /\ UNCHANGED <<rows, handed, taken>>
    BY <1>1 DEF vars, rows, plan
  <2>2. RowsOK'
    BY <2>1, RowsStay
  <2>3. IInv'
    BY <2>1, <2>2 DEF SInv, IInv, TypeOK, RowsOK, MemoriesOK
  <2>4. ASSUME Serial
        PROVE  Serial'
    <3>1. \A r \in Requests : Current(req[r])'
      BY <2>1, <2>4, CurrentKept DEF Serial
    <3> QED
      BY <2>1, <2>4, <3>1 DEF Serial, At
  <2> QED
    BY <2>1, <2>3, <2>4 DEF SInv
<1>2. ASSUME NEW r \in Requests, DutySteps(r)
      PROVE  SInv'
  BY <1>2, DutyEditsArrive, SaveDutySound, DecisionsArrive, SendReadsSound, DecisionsSound,
     ReadReportSound, DeleteReportsSound, InsertReportSound, HandOverSound DEF DutySteps
<1>3. ASSUME NEW r \in Requests, TaskSteps(r)
      PROVE  SInv'
  <2>1. ASSUME NEW d \in Duties, NEW w \in Windows \cup {None}, BeginAddTask(r, d, w)
        PROVE  SInv'
    <3>1. CASE Tasks # {}
      <4>1. PICK t : t \in Tasks
        BY <3>1
      <4> QED
        BY <2>1, <4>1, TaskEditsArrive
    <3>2. CASE Tasks = {}
      <4> DEFINE n == Memory("task.insert", None, [duty |-> d, window |-> w])
      <4>1. n \in Request
        BY DEF Memory, Request, TaskRow
      <4>2. MemoryOK(n, duty, taken) /\ Current(n)
        BY DEF Memory, MemoryOK, Current, Reporting
      <4> QED
        BY <2>1, <4>1, <4>2, BeginSound DEF BeginAddTask
    <3> QED
      BY <3>1, <3>2
  <2>2. ASSUME NEW t \in Tasks, NEW d \in Duties, NEW w \in Windows \cup {None},
               BeginPutTask(r, t, w) \/ BeginPatchTask(r, t, d, w)
        PROVE  SInv'
    BY <2>2, TaskEditsArrive
  <2> QED
    BY <1>3, <2>1, <2>2, TaskSavesSound DEF TaskSteps
<1>4. ASSUME NEW r \in Requests, CrewSteps(r)
      PROVE  SInv'
  <2>1. ASSUME NEW a \in AssignIds, BeginAbsence(r, a)
        PROVE  SInv'
    BY <2>1, AbsencesArrive DEF Verdicts
  <2> QED
    BY <1>4, <2>1, AssignArrives, FindClashesSound, DeleteClashesSound, AssignmentSavesSound,
       AssignmentEditsArrive, AbsencesArrive, AbsenceSavesSound DEF CrewSteps
<1>5. ASSUME NEW r \in Requests, FileSteps(r)
      PROVE  SInv'
  BY <1>5, FileEditsArrive, SaveFileSound DEF FileSteps
<1> QED
  BY <1>1, <1>2, <1>3, <1>4, <1>5, AbortSound, CreateDutySound, DeleteDutySound, UploadSound,
     DeletionsSound DEF Next

LEMMA SInvHolds == Spec => []SInv
  BY SInvInitially, SInvPreserved, PTL DEF Spec

------------------------------------------------------------------------------
(* The theorems *)

\* References stay whole, no employee is twice in a task, and only what was approved is reported and
\* handed over, whatever requests overlap: no statement saves a row whose other half is gone, and
\* unique_together refuses the second row.  Until two overlap, an approval leaves one report.
THEOREM ConsistentHolds == Spec => []Consistent
<1>1. SInv => Consistent
  <2> SUFFICES ASSUME SInv
               PROVE  OneReport
    BY DEF SInv, IInv, Consistent
  <2> QED
    BY DEF SInv, Serial, Current, OneReport, At
<1> QED
  BY <1>1, SInvHolds, PTL

------------------------------------------------------------------------------
(* The approval chain of any interleaving *)

\* The status of each duty, as ApprovalHistory sees the rows.
Standing == [d \in Duties |-> duty[d].status]

LEMMA StandingWritten ==
  ASSUME TypeOK, NEW d \in Duties, NEW row, duty' = [duty EXCEPT ![d] = row], NEW x, row.status = x
  PROVE  Standing' = [Standing EXCEPT ![d] = x]
BY DEF TypeOK, Standing

LEMMA HistoryStep ==
  ASSUME SInv, [Next]_vars
  PROVE  [History!Next]_(History!vars)
<1> USE DEF Standing
<1>1. TypeOK /\ \A r \in Requests : MemoryOK(req[r], duty, taken)
  BY DEF SInv, IInv, MemoriesOK
<1>2. CASE UNCHANGED <<duty, taken>>
  BY <1>2 DEF History!vars
<1>3. ASSUME NEW d \in Duties, NEW w \in Windows, CreateDuty(d, w)
      PROVE  History!Next
  <2>1. Standing' = [Standing EXCEPT ![d] = "DRAFT"]
    <3> DEFINE row == [status |-> "DRAFT", window |-> w]
    <3>1. duty' = [duty EXCEPT ![d] = row] /\ row.status = "DRAFT"
      BY <1>3 DEF CreateDuty
    <3> HIDE DEF row
    <3> QED
      BY <1>1, <3>1, StandingWritten
  <2> QED
    BY <1>3, <2>1 DEF CreateDuty, History!Next, History!Open
<1>4. ASSUME NEW d \in Duties, DeleteDuty(d)
      PROVE  History!Next
  <2>1. Standing' = [Standing EXCEPT ![d] = "deleted"]
    <3>1. duty' = [duty EXCEPT ![d] = NoDuty("deleted")] /\ NoDuty("deleted").status = "deleted"
      BY <1>4 DEF DeleteDuty, NoDuty
    <3> QED
      BY <1>1, <3>1, StandingWritten
  <2>2. Standing[d] # "unborn" /\ taken' = taken
    BY <1>4 DEF DeleteDuty, Live, Status, Decisions
  <2> QED
    BY <2>1, <2>2 DEF History!Next, History!Discard
<1>5. ASSUME NEW r \in Requests, SaveDuty(r)
      PROVE  History!Next
  <2> DEFINE d == req[r].key
             x == req[r].row.status
  <2>1. d \in Duties /\ duty[d].status # "unborn" /\ x \in taken[d] \cup {"DRAFT"}
    BY <1>1, <1>5, InHand, Fields DEF SaveDuty, At, MemoryOK
  <2>2. Standing' = [Standing EXCEPT ![d] = x]
    BY <1>1, <1>5, <2>1, StandingWritten DEF SaveDuty
  <2> QED
    BY <1>5, <2>1, <2>2 DEF SaveDuty, History!Next, History!Rewrite
<1>6. ASSUME NEW r \in Requests, NEW x \in Decisions, NEW n, Decide(r, x, n), req[r].key \in Duties,
             Needs[x] = {} \/ Needs[x] \cap taken[req[r].key] # {}, ~ UNCHANGED <<duty, taken>>
      PROVE  History!Next
  <2> DEFINE d == req[r].key
  <2>1. /\ Live(d) /\ duty' = [duty EXCEPT ![d].status = x]
        /\ taken' = [taken EXCEPT ![d] = @ \cup {x}]
    BY <1>6 DEF Decide
  <2>2. duty[d] \in DutyRow /\ [duty[d] EXCEPT !.status = x].status = x
    BY <1>1, <1>6, <2>1 DEF TypeOK, Live, NoDuty, Status, Decisions, DutyRow
  <2>3. Standing' = [Standing EXCEPT ![d] = x]
    BY <1>1, <1>6, <2>1, <2>2, StandingWritten
  <2>4. Standing[d] \notin History!Absent
    BY <1>6, <2>1 DEF Live, Status, Decisions, History!Absent
  <2> QED
    BY <1>6, <2>1, <2>3, <2>4 DEF History!Next, History!Take
<1>7. ASSUME NEW r \in Requests, SaveSend(r) \/ SaveApprove(r) \/ SaveReject(r),
             ~ UNCHANGED <<duty, taken>>
      PROVE  History!Next
  <2>1. req[r].key \in Duties /\ MemoryOK(req[r], duty, taken)
    BY <1>1, <1>7, InHand, Fields DEF SaveSend, SaveApprove, SaveReject, At
  <2>2. CASE SaveSend(r)
    <3>1. Needs["SENT_FOR_APPROVAL"] = {} /\ "SENT_FOR_APPROVAL" \in Decisions
      BY DEF Needs, Decisions
    <3> QED
      BY <1>6, <1>7, <2>1, <2>2, <3>1 DEF SaveSend
  <2>3. ASSUME NEW x \in Verdicts, NEW n, Decide(r, x, n), req[r].pc \in {"approve", "reject"}
        PROVE  History!Next
    <3>1. Needs[x] = {"SENT_FOR_APPROVAL"} /\ x \in Decisions
      BY DEF Needs, Decisions, Verdicts
    <3>2. "SENT_FOR_APPROVAL" \in taken[req[r].key]
      BY <2>1, <2>3 DEF MemoryOK
    <3> QED
      BY <1>6, <1>7, <2>1, <2>3, <3>1, <3>2
  <2> QED
    BY <1>7, <2>2, <2>3 DEF SaveApprove, SaveReject, At, Verdicts
<1>8. ASSUME NEW r \in Requests, DutySteps(r)
      PROVE  \/ UNCHANGED <<duty, taken>>
             \/ SaveDuty(r) \/ SaveSend(r) \/ SaveApprove(r) \/ SaveReject(r)
  BY <1>8 DEF DutySteps, BeginPutDuty, BeginPatchDuty, BeginSend, BeginApprove, BeginReject, Begin, rows,
     plan, AnyTask, ListTasks, CheckTask, ReadReport, DeleteReports, InsertReport, HandOver
<1>9. ASSUME NEW r \in Requests, TaskSteps(r) \/ FileSteps(r) \/ Abort(r)
      PROVE  UNCHANGED <<duty, taken>>
  BY <1>9 DEF TaskSteps, FileSteps, Abort, BeginAddTask, BeginPutTask, BeginPatchTask, BeginPutFile,
     BeginPatchFile, Begin, rows, plan, InsertTask, SaveTask, SaveFile
<1>10. ASSUME NEW r \in Requests, CrewSteps(r)
       PROVE  UNCHANGED <<duty, taken>>
  BY <1>10 DEF CrewSteps, BeginAssign, BeginPutAssignment, BeginPatchAssignment, BeginAbsence, BeginReview,
     Begin, rows, plan, FindClashes, DeleteClashes, InsertAssignment, SaveAssignment, InsertAbsence,
     SaveReview, Replace
<1>11. ASSUME \/ \E d \in Duties, n \in {"duty_report", "other"} : UploadFile(d, n)
              \/ \E f \in FileIds : DeleteFile(f)
              \/ \E t \in Tasks : DeleteTask(t)
              \/ \E a \in AssignIds : DeleteAssignment(a)
       PROVE  UNCHANGED <<duty, taken>>
  BY <1>11 DEF UploadFile, DeleteFile, DeleteTask, DeleteAssignment, plan
<1>12. CASE UNCHANGED vars
  BY <1>2, <1>12 DEF vars, rows, plan
<1> QED
  BY <1>2, <1>3, <1>4, <1>5, <1>7, <1>8, <1>9, <1>10, <1>11, <1>12 DEF Next

\* Under every interleaving of stale decisions and whole-row edits the duties keep what
\* ApprovalHistory promises (SaveDuty, Decide).
THEOREM HistoryHolds == Spec => HistorySpec
<1>1. Init => History!Init
  BY DEF Init, History!Init, NoDuty
<1>2. SInv /\ [Next]_vars => [History!Next]_(History!vars)
  BY HistoryStep
<1> QED
  BY <1>1, <1>2, SInvHolds, PTL DEF Spec, HistorySpec, History!Spec

\* So no duty is ever approved or rejected that was not sent for approval, and its status is one
\* that somebody gave it.
THEOREM DecisionsInOrder == Spec => []History!InOrder
<1>1. Init => History!InOrder
  BY DEF Init, History!InOrder, History!Absent, NoDuty
<1>2. ASSUME TypeOK, History!InOrder, [History!Next]_(History!vars)
      PROVE  History!InOrder'
  <2> SUFFICES ASSUME NEW v \in Duties
               PROVE  /\ \A x \in taken'[v] : Needs[x] = {} \/ Needs[x] \cap taken'[v] # {}
                      /\ Standing'[v] \in taken'[v] \cup {"DRAFT"} \cup History!Absent
    BY DEF History!InOrder, Standing
  <2>1. /\ \A x \in taken[v] : Needs[x] = {} \/ Needs[x] \cap taken[v] # {}
        /\ Standing[v] \in taken[v] \cup {"DRAFT"} \cup History!Absent
    BY <1>2 DEF History!InOrder, Standing
  <2>2. CASE UNCHANGED <<Standing, taken>>
    BY <2>1, <2>2
  <2>3. ASSUME NEW w \in Duties, History!Open(w) \/ History!Discard(w) \/ History!Rewrite(w)
        PROVE  taken' = taken /\ Standing'[v] \in taken[v] \cup {"DRAFT"} \cup History!Absent
    <3>1. taken' = taken
      BY <2>3 DEF History!Open, History!Discard, History!Rewrite
    <3>2. \E x \in taken[w] \cup {"DRAFT", "deleted"} : Standing' = [Standing EXCEPT ![w] = x]
      BY <2>3 DEF History!Open, History!Discard, History!Rewrite, Standing
    <3> QED
      BY <2>1, <3>1, <3>2 DEF History!Absent, Standing
  <2>4. ASSUME NEW w \in Duties, NEW x \in Decisions, History!Take(w, x)
        PROVE  \/ taken'[v] = taken[v] /\ Standing'[v] = Standing[v]
               \/ /\ taken'[v] = taken[v] \cup {x} /\ Standing'[v] = x
                  /\ Needs[x] = {} \/ Needs[x] \cap taken[v] # {}
    <3>1. /\ Standing' = [Standing EXCEPT ![w] = x] /\ taken' = [taken EXCEPT ![w] = @ \cup {x}]
          /\ Needs[x] = {} \/ Needs[x] \cap taken[w] # {}
      BY <2>4 DEF History!Take, Standing
    <3> QED
      BY <1>2, <3>1 DEF TypeOK, Standing
  <2> QED
    BY <1>2, <2>1, <2>2, <2>3, <2>4 DEF History!Next, History!vars, Standing
<1>3. SInv /\ History!InOrder /\ [Next]_vars => History!InOrder'
  BY <1>2, HistoryStep DEF SInv, IInv
<1> QED
  BY <1>1, <1>3, SInvHolds, PTL DEF Spec

------------------------------------------------------------------------------
(* What a step may never do until two requests overlap *)

LEMMA SerialSoFar ==
  ASSUME SInv, [Next]_vars, ~ overlapped'
  PROVE  ~ overlapped /\ Serial
<1>1. overlapped => overlapped'
  <2>1. ASSUME NEW r \in Requests, DutySteps(r) \/ FileSteps(r)
        PROVE  overlapped => overlapped'
    BY <2>1 DEF DutySteps, FileSteps, BeginPutDuty, BeginPatchDuty, BeginSend, BeginApprove, BeginReject,
       BeginPutFile, BeginPatchFile, Begin, SaveDuty, AnyTask, ListTasks, CheckTask, SaveSend, SaveApprove,
       SaveReject, Decide, ReadReport, DeleteReports, InsertReport, HandOver, SaveFile
  <2>2. ASSUME NEW r \in Requests, TaskSteps(r) \/ CrewSteps(r) \/ Abort(r)
        PROVE  overlapped => overlapped'
    BY <2>2 DEF TaskSteps, CrewSteps, Abort, BeginAddTask, BeginPutTask, BeginPatchTask, BeginAssign,
       BeginPutAssignment, BeginPatchAssignment, BeginAbsence, BeginReview, Begin, InsertTask, SaveTask,
       FindClashes, DeleteClashes, InsertAssignment, SaveAssignment, InsertAbsence, SaveReview, Replace
  <2> QED
    BY <2>1, <2>2 DEF Next, vars, CreateDuty, DeleteDuty, UploadFile, DeleteFile, DeleteTask, DeleteAssignment
<1> QED
  BY <1>1 DEF SInv

\* The statements that change a row of each table.
LEMMA DutyChanges ==
  ASSUME [Next]_vars, duty' # duty
  PROVE  \/ \E d \in Duties, w \in Windows : CreateDuty(d, w)
         \/ \E d \in Duties : DeleteDuty(d)
         \/ \E r \in Requests : SaveDuty(r) \/ SaveSend(r) \/ SaveApprove(r) \/ SaveReject(r)
<1>1. ASSUME NEW r \in Requests, DutySteps(r)
      PROVE  SaveDuty(r) \/ SaveSend(r) \/ SaveApprove(r) \/ SaveReject(r)
  BY <1>1 DEF DutySteps, BeginPutDuty, BeginPatchDuty, BeginSend, BeginApprove, BeginReject, Begin, rows,
     plan, AnyTask, ListTasks, CheckTask, ReadReport, DeleteReports, InsertReport, HandOver
<1>2. ASSUME NEW r \in Requests, TaskSteps(r) \/ FileSteps(r) \/ Abort(r)
      PROVE  FALSE
  BY <1>2 DEF TaskSteps, FileSteps, Abort, BeginAddTask, BeginPutTask, BeginPatchTask, BeginPutFile,
     BeginPatchFile, Begin, rows, plan, InsertTask, SaveTask, SaveFile
<1>3. ASSUME NEW r \in Requests, CrewSteps(r)
      PROVE  FALSE
  BY <1>3 DEF CrewSteps, BeginAssign, BeginPutAssignment, BeginPatchAssignment, BeginAbsence, BeginReview,
     Begin, rows, plan, FindClashes, DeleteClashes, InsertAssignment, SaveAssignment, InsertAbsence,
     SaveReview, Replace
<1> QED
  BY <1>1, <1>2, <1>3 DEF Next, vars, rows, plan, UploadFile, DeleteFile, DeleteTask, DeleteAssignment

LEMMA CrewChanges ==
  ASSUME [Next]_vars, ~ UNCHANGED <<asg, absence>>
  PROVE  \/ \E T \in SUBSET Tasks : Cascade(T)
         \/ \E a \in AssignIds : DeleteAssignment(a)
         \/ \E r \in Requests : \/ DeleteClashes(r) \/ InsertAssignment(r) \/ SaveAssignment(r)
                                \/ InsertAbsence(r) \/ SaveReview(r) \/ Replace(r)
<1>1. ASSUME NEW r \in Requests, DutySteps(r)
      PROVE  FALSE
  BY <1>1 DEF DutySteps, BeginPutDuty, BeginPatchDuty, BeginSend, BeginApprove, BeginReject, Begin, rows,
     plan, AnyTask, ListTasks, CheckTask, ReadReport, DeleteReports, InsertReport, HandOver, SaveDuty,
     SaveSend, SaveApprove, SaveReject, Decide
<1>2. ASSUME NEW r \in Requests, TaskSteps(r) \/ FileSteps(r) \/ Abort(r)
      PROVE  FALSE
  BY <1>2 DEF TaskSteps, FileSteps, Abort, BeginAddTask, BeginPutTask, BeginPatchTask, BeginPutFile,
     BeginPatchFile, Begin, rows, plan, InsertTask, SaveTask, SaveFile
<1>3. ASSUME NEW r \in Requests, CrewSteps(r)
      PROVE  \/ DeleteClashes(r) \/ InsertAssignment(r) \/ SaveAssignment(r)
             \/ InsertAbsence(r) \/ SaveReview(r) \/ Replace(r)
  BY <1>3 DEF CrewSteps, BeginAssign, BeginPutAssignment, BeginPatchAssignment, BeginAbsence, BeginReview,
     Begin, rows, plan, FindClashes
<1>4. ASSUME NEW d \in Duties, DeleteDuty(d)
      PROVE  \E T \in SUBSET Tasks : Cascade(T)
  <2>1. TasksOf(d) \in SUBSET Tasks
    BY DEF TasksOf, LiveTasks
  <2> QED
    BY <1>4, <2>1 DEF DeleteDuty
<1>5. ASSUME NEW t \in Tasks, DeleteTask(t)
      PROVE  \E T \in SUBSET Tasks : Cascade(T)
  <2>1. {t} \in SUBSET Tasks
    OBVIOUS
  <2> QED
    BY <1>5, <2>1 DEF DeleteTask
<1> QED
  BY <1>1, <1>2, <1>3, <1>4, <1>5 DEF Next, vars, rows, plan, CreateDuty, UploadFile, DeleteFile

\* A duty goes out for approval with a crew for every task and a driver for every car: the requests
\* that change a crew are not under way while it is checked (CheckTask, SaveSend).
THEOREM SentIsMannedHolds == Spec => SentIsManned
<1>1. ASSUME SInv, [Next]_vars, ~ overlapped', NEW d \in Duties, Draft(d), duty'[d].status \in Decisions
      PROVE  TasksOf(d) # {} /\ \A t \in TasksOf(d) : Manned(t)
  <2>1. Serial /\ duty \in [Duties -> DutyRow \cup {NoDuty("unborn"), NoDuty("deleted")}]
    BY <1>1, SerialSoFar DEF SInv, IInv, TypeOK
  <2>2. duty[d].status = "DRAFT" /\ duty' # duty
    BY <1>1 DEF Draft, Decisions
  <2>3. ASSUME NEW e \in Duties, NEW w \in Windows, CreateDuty(e, w) \/ DeleteDuty(e)
        PROVE  FALSE
    BY <1>1, <2>1, <2>2, <2>3 DEF CreateDuty, DeleteDuty, NoDuty, Decisions
  <2>4. ASSUME NEW r \in Requests, SaveDuty(r)
        PROVE  FALSE
    <3>1. /\ duty' = [duty EXCEPT ![req[r].key] = req[r].row] /\ req[r].key \in Duties
          /\ duty[req[r].key].status = req[r].row.status
      BY <1>1, <2>1, <2>4, InHand, Fields DEF SaveDuty, At, Serial, Current
    <3> QED
      BY <1>1, <2>1, <2>2, <3>1 DEF Decisions
  <2>5. ASSUME NEW r \in Requests, NEW x, NEW n, Decide(r, x, n)
        PROVE  req[r].key = d
    <3>1. duty' = [duty EXCEPT ![req[r].key] = [@ EXCEPT !.status = x]] \/ duty' = duty
      BY <2>5 DEF Decide
    <3>2. duty'[d].status # duty[d].status
      BY <1>1, <2>2 DEF Decisions
    <3> QED
      BY <2>1, <3>1, <3>2
  <2>6. ASSUME NEW r \in Requests, SaveApprove(r) \/ SaveReject(r)
        PROVE  FALSE
    <3>1. req[r].key = d
      BY <2>5, <2>6 DEF SaveApprove, SaveReject
    <3> QED
      BY <2>1, <2>2, <2>6, <3>1 DEF SaveApprove, SaveReject, At, Serial, Current
  <2>7. ASSUME NEW r \in Requests, SaveSend(r)
        PROVE  TasksOf(d) # {} /\ \A t \in TasksOf(d) : Manned(t)
    <3>1. req[r].key = d /\ req[r].pc = "send.check" /\ req[r].todo = {}
      BY <2>5, <2>7 DEF SaveSend, At
    <3>2. Current(req[r])
      BY <2>1 DEF Serial
    <3> QED
      BY <3>1, <3>2 DEF Current
  <2>8. \/ \E e \in Duties, w \in Windows : CreateDuty(e, w)
        \/ \E e \in Duties : DeleteDuty(e)
        \/ \E r \in Requests : SaveDuty(r) \/ SaveSend(r) \/ SaveApprove(r) \/ SaveReject(r)
    BY <1>1, <2>2, DutyChanges
  <2>9. ASSUME NEW e \in Duties, DeleteDuty(e)
        PROVE  FALSE
    BY <1>1, <2>1, <2>2, <2>9 DEF DeleteDuty, NoDuty, Decisions
  <2> QED
    BY <2>3, <2>4, <2>6, <2>7, <2>8, <2>9
<1>2. SInv /\ [Next]_vars =>
        [\A d \in Duties :
           ~ overlapped' /\ Draft(d) /\ duty'[d].status \in Decisions =>
             TasksOf(d) # {} /\ \A t \in TasksOf(d) : Manned(t)]_vars
  BY <1>1
<1> QED
  BY <1>2, SInvHolds, PTL DEF Spec, SentIsManned

\* Whoever is assigned to a task serves no other task at the same time: the clashes found are all
\* deleted before the row is inserted (FindClashes, DeleteClashes, InsertAssignment).
THEOREM TransferLeavesOneHolds == Spec => TransferLeavesOne
<1>1. ASSUME SInv, [Next]_vars, ~ overlapped', NEW a \in AssignIds, asg[a] = NoAsg, asg'[a] # NoAsg,
             NEW b \in LiveAsgs, asg[b].emp = asg'[a].emp
      PROVE  ~ Span(Hours(asg[b].task), Hours(asg'[a].task))
  <2>1. Serial /\ asg \in [AssignIds -> AsgRow \cup {NoAsg}]
    BY <1>1, SerialSoFar DEF SInv, IInv, TypeOK
  <2>2. a \notin LiveAsgs /\ asg' # asg
    BY <1>1 DEF LiveAsgs
  <2>3. ASSUME NEW T \in SUBSET Tasks, Cascade(T)
        PROVE  FALSE
    BY <1>1, <2>3 DEF Cascade
  <2>4. ASSUME NEW c \in AssignIds, DeleteAssignment(c)
        PROVE  FALSE
    BY <1>1, <2>1, <2>4 DEF DeleteAssignment
  <2>5. ASSUME NEW r \in Requests, DeleteClashes(r) \/ InsertAbsence(r) \/ SaveReview(r) \/ Replace(r)
        PROVE  FALSE
    BY <1>1, <2>1, <2>2, <2>5 DEF DeleteClashes, InsertAbsence, SaveReview, Replace
  <2>6. ASSUME NEW r \in Requests, SaveAssignment(r)
        PROVE  FALSE
    <3>1. req[r].key \in LiveAsgs
      BY <2>1, <2>6 DEF SaveAssignment, At, Serial, Current
    <3> QED
      BY <1>1, <2>1, <2>2, <2>6, <3>1 DEF SaveAssignment
  <2>7. ASSUME NEW r \in Requests, InsertAssignment(r)
        PROVE  ~ Span(Hours(asg[b].task), Hours(asg'[a].task))
    <3>1. asg'[a] = req[r].row
      BY <1>1, <2>1, <2>2, <2>7 DEF InsertAssignment
    <3>2. Clear(req[r].row, {})
      BY <2>1, <2>7 DEF InsertAssignment, At, Serial, Current
    <3> QED
      BY <1>1, <3>1, <3>2 DEF Clear
  <2> QED
    BY <1>1, <2>2, <2>3, <2>4, <2>5, <2>6, <2>7, CrewChanges
<1>2. SInv /\ [Next]_vars =>
        [\A a \in AssignIds :
           ~ overlapped' /\ asg[a] = NoAsg /\ asg'[a] # NoAsg =>
             \A b \in LiveAsgs : asg[b].emp = asg'[a].emp =>
               ~ Span(Hours(asg[b].task), Hours(asg'[a].task))]_vars
  BY <1>1
<1> QED
  BY <1>2, SInvHolds, PTL DEF Spec, TransferLeavesOne

\* A verdict about an absence is final: nobody decides between the look at PENDING and the save
\* (BeginReview, SaveReview).
THEOREM VerdictFinalHolds == Spec => VerdictFinal
<1>1. ASSUME SInv, [Next]_vars, ~ overlapped', NEW a \in AssignIds, absence[a].status \in Verdicts
      PROVE  absence'[a] \in {absence[a], NoAbsence}
  <2>1. Serial /\ absence \in [AssignIds -> AbsenceRow \cup {NoAbsence}]
    BY <1>1, SerialSoFar DEF SInv, IInv, TypeOK
  <2>2. absence[a] # NoAbsence /\ absence[a].status # "PENDING"
    BY <1>1, NoneIsNoVerdict DEF NoAbsence, Verdicts
  <2>3. ASSUME NEW T \in SUBSET Tasks, Cascade(T)
        PROVE  absence'[a] \in {absence[a], NoAbsence}
    BY <2>3 DEF Cascade
  <2>4. ASSUME NEW c \in AssignIds, DeleteAssignment(c)
        PROVE  absence'[a] \in {absence[a], NoAbsence}
    BY <2>1, <2>4 DEF DeleteAssignment
  <2>5. ASSUME NEW r \in Requests,
               DeleteClashes(r) \/ InsertAssignment(r) \/ SaveAssignment(r) \/ Replace(r)
        PROVE  absence'[a] \in {absence[a], NoAbsence}
    BY <2>5 DEF DeleteClashes, InsertAssignment, SaveAssignment, Replace
  <2>6. ASSUME NEW r \in Requests, InsertAbsence(r)
        PROVE  absence'[a] = absence[a]
    BY <2>1, <2>2, <2>6 DEF InsertAbsence
  <2>7. ASSUME NEW r \in Requests, SaveReview(r)
        PROVE  absence'[a] = absence[a]
    <3>1. absence[req[r].key].status = "PENDING"
      BY <2>1, <2>7 DEF SaveReview, Serial, Current
    <3> QED
      BY <2>1, <2>2, <2>7, <3>1 DEF SaveReview
  <2> QED
    BY <1>1, <2>3, <2>4, <2>5, <2>6, <2>7, CrewChanges
<1>2. SInv /\ [Next]_vars =>
        [\A a \in AssignIds :
           ~ overlapped' /\ absence[a].status \in Verdicts =>
             absence'[a] \in {absence[a], NoAbsence}]_vars
  BY <1>1
<1> QED
  BY <1>2, SInvHolds, PTL DEF Spec, VerdictFinal
===============================================================================
