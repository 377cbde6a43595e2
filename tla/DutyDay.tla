------------------------------- MODULE DutyDay -------------------------------
(***************************************************************************)
(* The duty day of one organisation on one date: its creation with its     *)
(* sections, the roster its officers draw up, and the approval chain       *)
(* officer -> collector -> district administrator                          *)
(* (monitoring/views/duty_day.py, services/duty_day_service.py,            *)
(* serializers/duty_day.py).                                               *)
(*                                                                         *)
(* The views are synchronous and each request runs in a thread of its own. *)
(* There is no transaction around a request (autocommit, no row lock), so  *)
(* a request is a sequence of atomic database statements: it loads the day *)
(* and checks the status it read, and writes later, when the row may have  *)
(* changed.  Each element of Requests is one such thread, which serves one *)
(* request after another; req[r] is what it holds in memory.  A request    *)
(* that is refused (400, 404) before its first write changes nothing and   *)
(* is not a step.                                                          *)
(***************************************************************************)
EXTENDS Integers, FiniteSets

CONSTANTS
  Requests,     \* the request threads of the web server
  DayIds,       \* primary keys duty days of this organisation and date may get
  AssignIds,    \* primary keys assignments may get
  Employees,    \* employees of the organisation
  StagesCount,  \* organization.stages_count: the sections of a day
  ListenerCap,  \* bound: listeners of one section are counted up to this number
  None          \* stands for "no row" in a request's memory

ASSUME DutyDayAssumption ==
  /\ StagesCount \in Nat
  /\ ListenerCap \in Nat \ {0}
  /\ None \notin DayIds /\ None \notin AssignIds

VARIABLES
  status,       \* status[d]   : DutyDay.status, or whether the row exists at all
  signed,       \* signed[d]   : which of submitted_by ... rejected_by are set
  sections,     \* sections[d] : stage numbers of the DutySection rows of d
  retimed,      \* retimed[d]  : the sections whose name or times were edited
  home,         \* home[a]     : the section the DutySectionAssignment row a is in
  crew,         \* crew[a]     : its employees (the many-to-many rows)
  listeners,    \* listeners[d][s] : alarm listener tasks queued for the section
  req           \* req[r]      : the request thread r is serving

roster == <<home, crew>>
vars   == <<status, signed, sections, retimed, home, crew, listeners, req>>

Status     == {"DRAFT", "SUBMITTED", "COLLECTED", "APPROVED", "REJECTED"}
Absent     == {"unborn", "deleted"}
Signatures == {"submitted", "collected", "approved", "rejected"}
Stages     == 1 .. StagesCount
Sections   == DayIds \X Stages
Nowhere    == Absent \X {0}     \* the home of an assignment without a row

Steps ==
  {"idle", "create.insert", "create.sections", "discard", "retime",
   "assign.insert", "patch.crew", "patch.note", "crew.read", "crew.write", "assign.delete",
   "submit.list", "submit.check", "collect", "approve", "approve.list", "dispatch", "reject"}

\* What a thread holds: its next statement, the rows it loaded, the stages left in its
\* loop, the employees asked for and the ones it read.
Request ==
  [pc : Steps, day : DayIds \cup {None}, stage : Stages \cup {0}, todo : SUBSET Stages,
   asg : AssignIds \cup {None}, want : SUBSET Employees, old : SUBSET Employees]

Idle ==
  [pc |-> "idle", day |-> None, stage |-> 0, todo |-> {}, asg |-> None, want |-> {}, old |-> {}]

TypeOK ==
  /\ status    \in [DayIds -> Status \cup Absent]
  /\ signed    \in [DayIds -> SUBSET Signatures]
  /\ sections  \in [DayIds -> SUBSET Stages]
  /\ retimed   \in [DayIds -> SUBSET Stages]
  /\ home      \in [AssignIds -> Sections \cup Nowhere]
  /\ crew      \in [AssignIds -> SUBSET Employees]
  /\ listeners \in [DayIds -> [Stages -> 0 .. ListenerCap]]
  /\ req       \in [Requests -> Request]

Init ==
  /\ status    = [d \in DayIds |-> "unborn"]
  /\ signed    = [d \in DayIds |-> {}]
  /\ sections  = [d \in DayIds |-> {}]
  /\ retimed   = [d \in DayIds |-> {}]
  /\ home      = [a \in AssignIds |-> <<"unborn", 0>>]
  /\ crew      = [a \in AssignIds |-> {}]
  /\ listeners = [d \in DayIds |-> [s \in Stages |-> 0]]
  /\ req       = [r \in Requests |-> Idle]

-----------------------------------------------------------------------------
Live(d)       == status[d] \in Status
First(S)      == CHOOSE s \in S : \A t \in S : s <= t
Staffed(d, s) == \E a \in AssignIds : home[a] = <<d, s>> /\ crew[a] # {}

\* Thread r goes on with memory m.
Becomes(r, m) == req' = [req EXCEPT ![r] = m]

At(r, step)   == req[r].pc = step

-----------------------------------------------------------------------------
(* Creating a day: the serializer looks for an existing day, the service inserts the *)
(* day and then its sections one by one.                                             *)

BeginCreate(r) ==
  /\ At(r, "idle")
  /\ \A d \in DayIds : ~ Live(d)
  /\ Becomes(r, [Idle EXCEPT !.pc = "create.insert"])
  /\ UNCHANGED <<status, signed, sections, retimed, roster, listeners>>

\* Variant: the table has no unique key.
InsertDay_NoUniqueKey(r) ==
  /\ At(r, "create.insert")
  /\ \E d \in DayIds :
       /\ status[d] = "unborn"
       /\ status' = [status EXCEPT ![d] = "DRAFT"]
       /\ Becomes(r, [Idle EXCEPT !.pc = "create.sections", !.day = d, !.todo = Stages])
  /\ UNCHANGED <<signed, sections, retimed, roster, listeners>>

\* The unique key (organization, duty_date) refuses a second live row.
InsertDay(r) ==
  /\ At(r, "create.insert")
  /\ \/ /\ \E d \in DayIds : Live(d)
        /\ Becomes(r, Idle)
        /\ UNCHANGED status
     \/ /\ \A d \in DayIds : ~ Live(d)
        /\ \E d \in DayIds :
             /\ status[d] = "unborn"
             /\ status' = [status EXCEPT ![d] = "DRAFT"]
             /\ Becomes(r, [Idle EXCEPT !.pc = "create.sections", !.day = d, !.todo = Stages])
  /\ UNCHANGED <<signed, sections, retimed, roster, listeners>>

\* A section of a day deleted meanwhile breaks the foreign key: the request fails.
InsertSection(r) ==
  LET d == req[r].day
      s == First(req[r].todo)
  IN  /\ At(r, "create.sections")
      /\ req[r].todo # {}
      /\ IF Live(d)
           THEN /\ sections' = [sections EXCEPT ![d] = @ \cup {s}]
                /\ Becomes(r, [req[r] EXCEPT !.todo = @ \ {s}])
           ELSE /\ Becomes(r, Idle)
                /\ UNCHANGED sections
      /\ UNCHANGED <<status, signed, retimed, roster, listeners>>

FinishCreate(r) ==
  /\ At(r, "create.sections")
  /\ req[r].todo = {}
  /\ Becomes(r, Idle)
  /\ UNCHANGED <<status, signed, sections, retimed, roster, listeners>>

-----------------------------------------------------------------------------
(* Deleting a day, editing a section.  Both load the row and insist on DRAFT.        *)

Begin(r, step, d, from) ==
  /\ At(r, "idle")
  /\ status[d] \in from
  /\ Becomes(r, [Idle EXCEPT !.pc = step, !.day = d])
  /\ UNCHANGED <<status, signed, sections, retimed, roster, listeners>>

BeginDiscard(r, d) == Begin(r, "discard", d, {"DRAFT"})

\* Variant: on_delete=DO_NOTHING.
Discard_NoCascade(r) ==
  LET d == req[r].day
  IN  /\ At(r, "discard")
      /\ status'   = [status EXCEPT ![d] = "deleted"]
      /\ sections' = [sections EXCEPT ![d] = {}]
      /\ retimed'  = [retimed EXCEPT ![d] = {}]
      /\ Becomes(r, Idle)
      /\ UNCHANGED <<signed, roster, listeners>>

\* delete() goes by primary key and cascades, whatever the status is by now.
Discard(r) ==
  LET d == req[r].day
  IN  /\ At(r, "discard")
      /\ status'   = [status EXCEPT ![d] = "deleted"]
      /\ sections' = [sections EXCEPT ![d] = {}]
      /\ retimed'  = [retimed EXCEPT ![d] = {}]
      /\ home'     = [a \in AssignIds |->
                        IF \E s \in Stages : home[a] = <<d, s>> THEN <<"deleted", 0>> ELSE home[a]]
      /\ crew'     = [a \in AssignIds |->
                        IF \E s \in Stages : home[a] = <<d, s>> THEN {} ELSE crew[a]]
      /\ Becomes(r, Idle)
      /\ UNCHANGED <<signed, listeners>>

BeginSectionEdit(r, step, d, s) ==
  /\ At(r, "idle")
  /\ status[d] = "DRAFT" /\ s \in sections[d]
  /\ Becomes(r, [Idle EXCEPT !.pc = step, !.day = d, !.stage = s])
  /\ UNCHANGED <<status, signed, sections, retimed, roster, listeners>>

BeginRetime(r, d, s) == BeginSectionEdit(r, "retime", d, s)

\* save() of a section whose day is gone breaks the foreign key.
Retime(r) ==
  LET d == req[r].day
  IN  /\ At(r, "retime")
      /\ retimed' = [retimed EXCEPT ![d] = @ \cup ({req[r].stage} \cap sections[d])]
      /\ Becomes(r, Idle)
      /\ UNCHANGED <<status, signed, sections, roster, listeners>>

-----------------------------------------------------------------------------
(* The roster.  An assignment is a row with its section, and a many-to-many set of    *)
(* employees written by a later statement (set()): the set is read, and the           *)
(* difference to the wanted one is deleted and inserted.                              *)

BeginAssign(r, d, s, W) ==
  /\ At(r, "idle")
  /\ status[d] = "DRAFT" /\ s \in sections[d]
  /\ Becomes(r, [Idle EXCEPT !.pc = "assign.insert", !.day = d, !.stage = s, !.want = W])
  /\ UNCHANGED <<status, signed, sections, retimed, roster, listeners>>

InsertAssignment(r) ==
  LET d == req[r].day
      s == req[r].stage
  IN  /\ At(r, "assign.insert")
      /\ \/ /\ s \in sections[d]
            /\ \E a \in AssignIds :
                 /\ home[a] = <<"unborn", 0>>
                 /\ home' = [home EXCEPT ![a] = <<d, s>>]
                 /\ Becomes(r, [req[r] EXCEPT !.pc = "crew.read", !.asg = a])
         \/ /\ s \notin sections[d]
            /\ Becomes(r, Idle)
            /\ UNCHANGED home
      /\ UNCHANGED <<status, signed, sections, retimed, crew, listeners>>

\* Variant: the view forgets to look at the status of the day.
BeginAssignmentEdit_AnyStatus(r, step, a, W) ==
  /\ At(r, "idle")
  /\ \E d \in DayIds, s \in Stages :
       /\ home[a] = <<d, s>>
       /\ Becomes(r, [Idle EXCEPT !.pc = step, !.day = d, !.stage = s, !.asg = a, !.want = W])
  /\ UNCHANGED <<status, signed, sections, retimed, roster, listeners>>

BeginAssignmentEdit(r, step, a, W) ==
  /\ At(r, "idle")
  /\ \E d \in DayIds, s \in Stages :
       /\ home[a] = <<d, s>> /\ status[d] = "DRAFT"
       /\ Becomes(r, [Idle EXCEPT !.pc = step, !.day = d, !.stage = s, !.asg = a, !.want = W])
  /\ UNCHANGED <<status, signed, sections, retimed, roster, listeners>>

BeginPatchCrew(r, a, W)       == BeginAssignmentEdit(r, "patch.crew", a, W)
BeginPatchNote(r, a)          == BeginAssignmentEdit(r, "patch.note", a, {})
BeginDeleteAssignment(r, a)   == BeginAssignmentEdit(r, "assign.delete", a, {})

\* serializer.save() saves the whole row: it brings a deleted one back, empty, unless
\* its section is gone too.
SaveAssignment(r) ==
  LET d == req[r].day
      s == req[r].stage
      a == req[r].asg
  IN  /\ req[r].pc \in {"patch.crew", "patch.note"}
      /\ IF s \in sections[d]
           THEN /\ home' = [home EXCEPT ![a] = <<d, s>>]
                /\ Becomes(r, IF req[r].pc = "patch.crew"
                                THEN [req[r] EXCEPT !.pc = "crew.read"] ELSE Idle)
           ELSE /\ Becomes(r, Idle)
                /\ UNCHANGED home
      /\ UNCHANGED <<status, signed, sections, retimed, crew, listeners>>

ReadCrew(r) ==
  /\ At(r, "crew.read")
  /\ Becomes(r, [req[r] EXCEPT !.pc = "crew.write", !.old = crew[req[r].asg]])
  /\ UNCHANGED <<status, signed, sections, retimed, roster, listeners>>

\* Employees cannot be inserted for an assignment that is gone.
WriteCrew(r) ==
  LET a == req[r].asg
      m == req[r]
  IN  /\ At(r, "crew.write")
      /\ crew' = [crew EXCEPT ![a] =
                    IF home[a] \in Sections THEN (@ \ (m.old \ m.want)) \cup (m.want \ m.old)
                    ELSE @]
      /\ Becomes(r, Idle)
      /\ UNCHANGED <<status, signed, sections, retimed, home, listeners>>

DeleteAssignment(r) ==
  LET a == req[r].asg
  IN  /\ At(r, "assign.delete")
      /\ home' = [home EXCEPT ![a] = <<"deleted", 0>>]
      /\ crew' = [crew EXCEPT ![a] = {}]
      /\ Becomes(r, Idle)
      /\ UNCHANGED <<status, signed, sections, retimed, listeners>>

-----------------------------------------------------------------------------
(* The approval chain.  Each decision is taken on the status the view loaded, and     *)
(* saved with save(update_fields=...): it writes the status and its own signature     *)
(* whatever the row holds by now, and fails when the row is gone.                     *)

\* Variant: save() without update_fields, which inserts the row again when it is gone.
Save_WholeRow(r, to, signature, next) ==
  LET d == req[r].day
  IN  /\ status' = [status EXCEPT ![d] = to]
      /\ signed' = [signed EXCEPT ![d] = @ \cup {signature}]
      /\ Becomes(r, next)

Save(r, to, signature, next) ==
  LET d == req[r].day
  IN  IF Live(d)
        THEN /\ status' = [status EXCEPT ![d] = to]
             /\ signed' = [signed EXCEPT ![d] = @ \cup {signature}]
             /\ Becomes(r, next)
        ELSE /\ Becomes(r, Idle)
             /\ UNCHANGED <<status, signed>>

\* Variants: the collector's decision is not awaited; an approved day may be approved
\* again; the listeners are queued first; a draft may be rejected.
BeginApprove_Uncollected(r, d) == Begin(r, "approve", d, {"SUBMITTED", "COLLECTED"})
BeginApprove_Again(r, d)       == Begin(r, "approve", d, {"COLLECTED", "APPROVED"})
BeginApprove_ListenFirst(r, d) == Begin(r, "approve.list", d, {"COLLECTED"})
BeginReject_Draft(r, d)        == Begin(r, "reject", d, {"DRAFT", "SUBMITTED", "COLLECTED"})

BeginSubmit(r, d)  == Begin(r, "submit.list", d, {"DRAFT"})
BeginCollect(r, d) == Begin(r, "collect", d, {"SUBMITTED"})
BeginApprove(r, d) == Begin(r, "approve", d, {"COLLECTED"})
BeginReject(r, d)  == Begin(r, "reject", d, {"SUBMITTED", "COLLECTED"})

\* The sections of the day are fetched after the day itself.
ListSubmitted(r) ==
  /\ At(r, "submit.list")
  /\ Becomes(r, [req[r] EXCEPT !.pc = "submit.check", !.todo = sections[req[r].day]])
  /\ UNCHANGED <<status, signed, sections, retimed, roster, listeners>>

\* Variant: a section passes as soon as it has an assignment row.
CheckSection_AnyRow(r) ==
  LET s == First(req[r].todo)
  IN  /\ At(r, "submit.check")
      /\ req[r].todo # {}
      /\ Becomes(r, IF \E a \in AssignIds : home[a] = <<req[r].day, s>>
                      THEN [req[r] EXCEPT !.todo = @ \ {s}] ELSE Idle)
      /\ UNCHANGED <<status, signed, sections, retimed, roster, listeners>>

\* One query per section: has it an assignment with an employee?
CheckSection(r) ==
  LET s == First(req[r].todo)
  IN  /\ At(r, "submit.check")
      /\ req[r].todo # {}
      /\ Becomes(r, IF Staffed(req[r].day, s) THEN [req[r] EXCEPT !.todo = @ \ {s}] ELSE Idle)
      /\ UNCHANGED <<status, signed, sections, retimed, roster, listeners>>

SaveSubmit(r) ==
  /\ At(r, "submit.check")
  /\ req[r].todo = {}
  /\ Save(r, "SUBMITTED", "submitted", Idle)
  /\ UNCHANGED <<sections, retimed, roster, listeners>>

SaveCollect(r) ==
  /\ At(r, "collect")
  /\ Save(r, "COLLECTED", "collected", Idle)
  /\ UNCHANGED <<sections, retimed, roster, listeners>>

SaveApprove(r) ==
  /\ At(r, "approve")
  /\ Save(r, "APPROVED", "approved", [req[r] EXCEPT !.pc = "approve.list"])
  /\ UNCHANGED <<sections, retimed, roster, listeners>>

ListApproved(r) ==
  /\ At(r, "approve.list")
  /\ Becomes(r, [req[r] EXCEPT !.pc = "dispatch", !.todo = sections[req[r].day]])
  /\ UNCHANGED <<status, signed, sections, retimed, roster, listeners>>

\* listen_alarm_stream.delay(section.id), one section after the other.
Dispatch(r) ==
  LET d == req[r].day
      s == First(req[r].todo)
  IN  /\ At(r, "dispatch")
      /\ req[r].todo # {}
      /\ listeners' = [listeners EXCEPT ![d][s] = IF @ < ListenerCap THEN @ + 1 ELSE @]
      /\ Becomes(r, [req[r] EXCEPT !.todo = @ \ {s}])
      /\ UNCHANGED <<status, signed, sections, retimed, roster>>

FinishApprove(r) ==
  /\ At(r, "dispatch")
  /\ req[r].todo = {}
  /\ Becomes(r, Idle)
  /\ UNCHANGED <<status, signed, sections, retimed, roster, listeners>>

SaveReject(r) ==
  /\ At(r, "reject")
  /\ Save(r, "REJECTED", "rejected", Idle)
  /\ UNCHANGED <<sections, retimed, roster, listeners>>

-----------------------------------------------------------------------------
\* The server process, the database connection or the task broker fails under a request:
\* what it has written stays.
Abort(r) ==
  /\ ~ At(r, "idle")
  /\ Becomes(r, Idle)
  /\ UNCHANGED <<status, signed, sections, retimed, roster, listeners>>

CreateSteps(r) == BeginCreate(r) \/ InsertDay(r) \/ InsertSection(r) \/ FinishCreate(r)

RosterSteps(r) ==
  \/ \E d \in DayIds : BeginDiscard(r, d)
  \/ Discard(r)
  \/ \E d \in DayIds, s \in Stages : BeginRetime(r, d, s)
  \/ Retime(r)
  \/ \E d \in DayIds, s \in Stages, W \in SUBSET Employees : BeginAssign(r, d, s, W)
  \/ InsertAssignment(r)
  \/ \E a \in AssignIds, W \in SUBSET Employees : BeginPatchCrew(r, a, W)
  \/ \E a \in AssignIds : BeginPatchNote(r, a) \/ BeginDeleteAssignment(r, a)
  \/ SaveAssignment(r) \/ ReadCrew(r) \/ WriteCrew(r) \/ DeleteAssignment(r)

ChainSteps(r) ==
  \/ \E d \in DayIds :
       BeginSubmit(r, d) \/ BeginCollect(r, d) \/ BeginApprove(r, d) \/ BeginReject(r, d)
  \/ ListSubmitted(r) \/ CheckSection(r) \/ SaveSubmit(r)
  \/ SaveCollect(r)
  \/ SaveApprove(r) \/ ListApproved(r) \/ Dispatch(r) \/ FinishApprove(r)
  \/ SaveReject(r)

Next == \E r \in Requests : CreateSteps(r) \/ RosterSteps(r) \/ ChainSteps(r) \/ Abort(r)

Spec == Init /\ [][Next]_vars

-----------------------------------------------------------------------------
(* What holds whatever requests overlap.                                              *)

UnderReview == {"SUBMITTED", "COLLECTED", "APPROVED"}

\* Every decision rests on the one before it, however stale the row it was taken on: no
\* day is approved that was not collected, nor collected or rejected that was not
\* submitted; a draft bears no signature, and a status bears its own.
SignatureChain ==
  \A d \in DayIds :
    /\ "approved"  \in signed[d] => "collected" \in signed[d]
    /\ "collected" \in signed[d] => "submitted" \in signed[d]
    /\ "rejected"  \in signed[d] => "submitted" \in signed[d]
    /\ status[d] \in {"unborn", "DRAFT"} => signed[d] = {}
    /\ status[d] = "SUBMITTED" => "submitted" \in signed[d]
    /\ status[d] = "COLLECTED" => "collected" \in signed[d]
    /\ status[d] = "APPROVED"  => "approved"  \in signed[d]
    /\ status[d] = "REJECTED"  => "rejected"  \in signed[d]

\* What a decision in memory m, once loaded, may rely on when the signatures are sg:
\* signatures are never withdrawn, so the one it was loaded with is still there.
MemoryOK(m, sg) ==
  /\ m.pc \notin {"idle", "create.insert"} => m.day \in DayIds
  /\ m.pc \in {"retime", "assign.insert", "patch.crew", "patch.note", "assign.delete"} =>
       m.stage \in Stages
  /\ m.pc \in {"patch.crew", "patch.note", "crew.read", "crew.write", "assign.delete"} =>
       m.asg \in AssignIds
  /\ m.pc \in {"collect", "reject"} => "submitted" \in sg[m.day]
  /\ m.pc = "approve" => "collected" \in sg[m.day]
  /\ m.pc \in {"approve.list", "dispatch"} => "approved" \in sg[m.day]

InFlight == \A r \in Requests : MemoryOK(req[r], signed)

\* An alarm listener is queued only for a section of a day the administrator approved,
\* even when the day is rejected, regressed or deleted while it is being queued.
ListenersBacked ==
  \A d \in DayIds, s \in Stages : listeners[d][s] > 0 => "approved" \in signed[d]

\* Two requests that both saw no day for the date leave one day behind.
OneDay == \A d, e \in DayIds : Live(d) /\ Live(e) => d = e

\* The roster has no orphans: a deletion that overlaps an insertion or an edit leaves
\* no assignment of a vanished section and no employee of a vanished assignment.
RosterIntegrity ==
  \A a \in AssignIds :
    /\ home[a] \in Sections => home[a][2] \in sections[home[a][1]]
    /\ crew[a] # {} => home[a] \in Sections

\* Once out of DRAFT a day is never a draft again, and a deleted day never comes back:
\* a late decision about it must not save the row into existence.
LeftDraftForGood ==
  [][\A d \in DayIds :
       /\ status[d] \notin {"unborn", "DRAFT"} => status'[d] \notin {"unborn", "DRAFT"}
       /\ status[d] = "deleted" => status'[d] = "deleted"]_vars

-----------------------------------------------------------------------------
(* What holds when requests do not overlap.                                           *)

Chain == INSTANCE ApprovalChain WITH Docs <- DayIds

\* The day follows the approval chain, through aborted requests and deletions.
ChainSpec == Chain!Spec

\* What the officer submitted is what the others decide about: the sections, their times
\* and their roster no longer change.
ContentFrozen ==
  [][\A d \in DayIds : status[d] \in UnderReview \cup {"REJECTED"} =>
       /\ sections'[d] = sections[d] /\ retimed'[d] = retimed[d]
       /\ \A a \in AssignIds, s \in Stages :
            home[a] = <<d, s>> \/ home'[a] = <<d, s>> =>
              home'[a] = home[a] /\ crew'[a] = crew[a]]_vars

\* A section gets one listener, when its day has been approved, and none without it.
ListenedOnce ==
  \A d \in DayIds, s \in Stages :
    listeners[d][s] > 0 => listeners[d][s] = 1 /\ status[d] = "APPROVED" /\ s \in sections[d]

=============================================================================
