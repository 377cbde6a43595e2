------------------------- MODULE EventApprovalProofs -------------------------
(***************************************************************************)
(* Theorems about EventApproval and its document, for every set of         *)
(* threads, events, assignments and employees.                             *)
(***************************************************************************)
EXTENDS EventPaper, TLAPS

USE EventAssumption

-----------------------------------------------------------------------------
(* The inductive invariant of any interleaving                                        *)

\* The statements of a request about one assignment, and those before an event is submitted.
AssignmentSteps == {"patch.crew", "patch.note", "crew.read", "crew.write", "assign.delete"}
DraftSteps == AssignmentSteps \cup {"patch", "discard", "assign.insert", "submit.check", "submit"}

\* What a request in hand may rely on, whatever others do meanwhile: its event was created, its
\* assignment has been inserted, and a decision rests on one that was taken.
MemoryOK(m, st, un, tk) ==
  /\ m.pc # "idle" => m.event \in Events /\ st[m.event] # "unborn"
  /\ m.pc \in AssignmentSteps => m.asg \in AssignIds \ un
  /\ m.pc = "patch" => m.ed < MaxEdits
  /\ m.pc = "collect" => "SUBMITTED" \in tk[m.event]
  /\ m.pc = "approve" => "COLLECTED" \in tk[m.event]
  /\ m.pc = "reject" => tk[m.event] \cap {"SUBMITTED", "COLLECTED"} # {}

MemoriesOK == \A r \in Requests : MemoryOK(req[r], status, unused, taken)

\* An event or assignment that was never inserted has nothing yet.
NothingYet ==
  /\ \A v \in Events : status[v] = "unborn" => signed[v] = {} /\ taken[v] = {}
  /\ \A a \in unused : home[a] = None

\* A status other than DRAFT was given by a decision.
StatusTaken == \A v \in Events : status[v] \in Decisions => status[v] \in taken[v]

IInv == TypeOK /\ MemoriesOK /\ NothingYet /\ StatusTaken /\ RosterIntegrity

-----------------------------------------------------------------------------
(* What one step does to the memories                                                 *)

LEMMA IdleIsSound == Idle \in Request /\ \A st, un, tk : MemoryOK(Idle, st, un, tk)
  BY DEF Idle, Request, Steps, MemoryOK, AssignmentSteps

\* One memory is replaced, no event becomes unborn, no key unused and no decision is taken back.
LEMMA OneMemoryChanges ==
  ASSUME TypeOK, MemoriesOK, NEW r \in Requests, NEW m \in Request, Becomes(r, m),
         MemoryOK(m, status', unused', taken'),
         \A v \in Events : status[v] # "unborn" => status'[v] # "unborn",
         unused' \subseteq unused,
         \A v \in Events : taken[v] \subseteq taken'[v]
  PROVE  req' \in [Requests -> Request] /\ MemoriesOK'
<1>1. req' \in [Requests -> Request]
  BY DEF TypeOK, Becomes
<1>2. ASSUME NEW q \in Requests
      PROVE  MemoryOK(req'[q], status', unused', taken')
  <2>1. CASE q = r
    BY <2>1 DEF TypeOK, Becomes
  <2>2. CASE q # r
    <3>1. req'[q] = req[q] /\ req[q] \in Request
      BY <2>2 DEF TypeOK, Becomes
    <3>2. MemoryOK(req[q], status, unused, taken)
      BY DEF MemoriesOK
    <3> QED
      BY <3>1, <3>2 DEF MemoryOK, Request
  <2> QED
    BY <2>1, <2>2
<1> QED
  BY <1>1, <1>2 DEF MemoriesOK

\* A request loads, reads, checks or gives up: no row changes.
LEMMA OnlyMemoryChanges ==
  ASSUME IInv, NEW r \in Requests, NEW m \in Request, Becomes(r, m),
         MemoryOK(m, status, unused, taken), overlapped' \in BOOLEAN,
         UNCHANGED <<status, signed, edition, roster, taken>>
  PROVE  IInv'
<1>1. req' \in [Requests -> Request] /\ MemoriesOK'
  BY OneMemoryChanges DEF IInv, roster
<1>2. TypeOK'
  BY <1>1 DEF IInv, TypeOK, roster
<1>3. NothingYet' /\ StatusTaken' /\ RosterIntegrity'
  BY DEF IInv, NothingYet, StatusTaken, RosterIntegrity, Live, roster
<1> QED
  BY <1>1, <1>2, <1>3 DEF IInv

\* Loading an event with a status that the view accepts.
LEMMA BeginSound ==
  ASSUME IInv, NEW r \in Requests, NEW v \in Events, NEW step \in Steps \ AssignmentSteps,
         NEW from \in SUBSET Status, Begin(r, step, v, from),
         step = "patch" => edition[v] < MaxEdits,
         step = "collect" => "SUBMITTED" \in taken[v],
         step = "approve" => "COLLECTED" \in taken[v],
         step = "reject" => taken[v] \cap {"SUBMITTED", "COLLECTED"} # {}
  PROVE  IInv'
<1> DEFINE m == [Idle EXCEPT !.pc = step, !.event = v, !.sigs = signed[v], !.ed = edition[v]]
<1>1. m \in Request
  BY DEF Idle, Request, IInv, TypeOK
<1>2. status[v] # "unborn"
  BY DEF Begin, Status, Decisions
<1>3. MemoryOK(m, status, unused, taken)
  BY <1>2 DEF MemoryOK, Idle
<1>4. overlapped' \in BOOLEAN /\ Becomes(r, m) /\ UNCHANGED <<status, signed, edition, roster, taken>>
  BY DEF Begin, IInv, TypeOK
<1> QED
  BY <1>1, <1>3, <1>4, OnlyMemoryChanges

-----------------------------------------------------------------------------
(* Each step keeps the invariant                                                      *)

LEMMA IInvInitially == Init => IInv
<1> SUFFICES ASSUME Init
             PROVE  IInv
  OBVIOUS
<1>1. TypeOK
  <2>1. status \in [Events -> Status \cup Absent] /\ overlapped \in BOOLEAN
    BY DEF Init, Absent
  <2>2. signed \in [Events -> SUBSET Decisions] /\ taken \in [Events -> SUBSET Decisions]
    BY DEF Init
  <2>3. edition \in [Events -> 0 .. MaxEdits]
    BY DEF Init
  <2>4. req \in [Requests -> Request]
    BY IdleIsSound DEF Init
  <2>5. /\ home \in [AssignIds -> Events \cup {None}] /\ unused \in SUBSET AssignIds
        /\ crew \in [AssignIds -> SUBSET Employees]
    BY DEF Init
  <2> QED
    BY <2>1, <2>2, <2>3, <2>4, <2>5 DEF TypeOK
<1>2. MemoriesOK
  <2> SUFFICES ASSUME NEW r \in Requests
               PROVE  MemoryOK(req[r], status, unused, taken)
    BY DEF MemoriesOK
  <2>1. req[r] = Idle
    BY DEF Init
  <2> QED
    BY <2>1, IdleIsSound
<1>3. NothingYet /\ StatusTaken /\ RosterIntegrity
  BY DEF Init, NothingYet, StatusTaken, RosterIntegrity, Decisions
<1> QED
  BY <1>1, <1>2, <1>3 DEF IInv

LEMMA CreateSound ==
  ASSUME IInv, NEW v \in Events, CreateEvent(v)
  PROVE  IInv'
<1>1. TypeOK'
  BY DEF CreateEvent, IInv, TypeOK, roster, Status
<1>2. status' = [status EXCEPT ![v] = "DRAFT"] /\ status \in [Events -> Status \cup Absent]
  BY DEF CreateEvent, IInv, TypeOK
<1>3. MemoriesOK'
  <2> SUFFICES ASSUME NEW r \in Requests
               PROVE  MemoryOK(req[r], status', unused, taken)
    BY DEF MemoriesOK, CreateEvent, roster
  <2>1. MemoryOK(req[r], status, unused, taken)
    BY DEF IInv, MemoriesOK
  <2> QED
    BY <1>2, <2>1 DEF MemoryOK
<1>4. NothingYet' /\ StatusTaken'
  BY <1>2 DEF CreateEvent, IInv, NothingYet, StatusTaken, roster, Decisions
<1>5. RosterIntegrity'
  BY <1>2 DEF CreateEvent, IInv, TypeOK, RosterIntegrity, Live, roster, Status
<1> QED
  BY <1>1, <1>3, <1>4, <1>5 DEF IInv

\* What a request whose memory is sound holds.
LEMMA InHand ==
  ASSUME IInv, NEW r \in Requests, ~ At(r, "idle")
  PROVE  /\ req[r] \in Request /\ MemoryOK(req[r], status, unused, taken)
         /\ req[r].event \in Events /\ status[req[r].event] # "unborn"
         /\ req[r].sigs \in SUBSET Decisions /\ req[r].want \in SUBSET Employees
         /\ req[r].old \in SUBSET Employees
         /\ req[r].pc \in AssignmentSteps => req[r].asg \in AssignIds /\ req[r].asg \notin unused
         /\ req[r].pc = "patch" => req[r].ed + 1 \in 0 .. MaxEdits
<1>1. req[r] \in Request /\ MemoryOK(req[r], status, unused, taken)
  BY DEF IInv, TypeOK, MemoriesOK
<1> QED
  BY <1>1 DEF MemoryOK, Request, At

LEMMA SaveEventSound ==
  ASSUME IInv, NEW r \in Requests, SaveEvent(r)
  PROVE  IInv'
<1> DEFINE v == req[r].event
<1>1. v \in Events /\ status[v] # "unborn" /\ req[r].sigs \in SUBSET Decisions
        /\ req[r].ed + 1 \in 0 .. MaxEdits
  BY InHand DEF SaveEvent, At
<1>2. /\ status' = [status EXCEPT ![v] = "DRAFT"] /\ signed' = [signed EXCEPT ![v] = req[r].sigs]
      /\ edition' = [edition EXCEPT ![v] = req[r].ed + 1] /\ Becomes(r, Idle)
      /\ UNCHANGED <<roster, taken, overlapped>>
  BY DEF SaveEvent
<1>3. req' \in [Requests -> Request] /\ MemoriesOK'
  BY <1>1, <1>2, IdleIsSound, OneMemoryChanges DEF IInv, TypeOK, roster
<1>4. TypeOK'
  BY <1>1, <1>2, <1>3 DEF IInv, TypeOK, roster, Status
<1>5. NothingYet' /\ StatusTaken' /\ RosterIntegrity'
  BY <1>1, <1>2 DEF IInv, TypeOK, NothingYet, StatusTaken, RosterIntegrity, Live, roster, Status,
     Decisions
<1> QED
  BY <1>3, <1>4, <1>5 DEF IInv

LEMMA DiscardSound ==
  ASSUME IInv, NEW r \in Requests, Discard(r)
  PROVE  IInv'
<1> DEFINE v == req[r].event
<1>1. v \in Events /\ status[v] # "unborn"
  BY InHand DEF Discard, At
<1>2. /\ status' = [status EXCEPT ![v] = "deleted"] /\ Becomes(r, Idle)
      /\ home' = [a \in AssignIds |-> IF home[a] = v THEN None ELSE home[a]]
      /\ crew' = [a \in AssignIds |-> IF home[a] = v THEN {} ELSE crew[a]]
      /\ UNCHANGED <<signed, edition, unused, taken, overlapped>>
  BY DEF Discard
<1>3. req' \in [Requests -> Request] /\ MemoriesOK'
  BY <1>1, <1>2, IdleIsSound, OneMemoryChanges DEF IInv, TypeOK
<1>4. TypeOK'
  BY <1>1, <1>2, <1>3 DEF IInv, TypeOK, Absent
<1>5. NothingYet' /\ StatusTaken'
  BY <1>1, <1>2 DEF IInv, TypeOK, NothingYet, StatusTaken, Decisions
<1>6. RosterIntegrity'
  BY <1>1, <1>2 DEF IInv, TypeOK, RosterIntegrity, Live
<1> QED
  BY <1>3, <1>4, <1>5, <1>6 DEF IInv

LEMMA InsertAssignmentSound ==
  ASSUME IInv, NEW r \in Requests, InsertAssignment(r)
  PROVE  IInv'
<1> DEFINE v == req[r].event
<1>1. v \in Events /\ status[v] # "unborn" /\ req[r] \in Request
  BY InHand DEF InsertAssignment, At
<1>2. ASSUME NEW a \in unused, Live(v), home' = [home EXCEPT ![a] = v], unused' = unused \ {a},
             Becomes(r, [req[r] EXCEPT !.pc = "crew.read", !.asg = a])
      PROVE  IInv'
  <2> DEFINE m == [req[r] EXCEPT !.pc = "crew.read", !.asg = a]
  <2>1. a \in AssignIds /\ UNCHANGED <<status, signed, edition, crew, taken, overlapped>>
    BY DEF IInv, TypeOK, InsertAssignment
  <2>2. m \in Request /\ MemoryOK(m, status', unused', taken')
    BY <1>1, <1>2, <2>1 DEF Request, Steps, MemoryOK, AssignmentSteps
  <2>3. req' \in [Requests -> Request] /\ MemoriesOK'
    BY <1>2, <2>1, <2>2, OneMemoryChanges DEF IInv
  <2>4. TypeOK'
    BY <1>1, <1>2, <2>1, <2>3 DEF IInv, TypeOK
  <2>5. NothingYet' /\ StatusTaken'
    BY <1>1, <1>2, <2>1 DEF IInv, TypeOK, NothingYet, StatusTaken
  <2>6. RosterIntegrity'
    BY <1>1, <1>2, <2>1 DEF IInv, TypeOK, RosterIntegrity, Live
  <2> QED
    BY <2>3, <2>4, <2>5, <2>6 DEF IInv
<1>3. CASE Becomes(r, Idle) /\ UNCHANGED <<home, unused>>
  BY <1>3, IdleIsSound, OnlyMemoryChanges DEF InsertAssignment, IInv, TypeOK, roster
<1> QED
  BY <1>2, <1>3 DEF InsertAssignment

LEMMA SaveAssignmentSound ==
  ASSUME IInv, NEW r \in Requests, SaveAssignment(r)
  PROVE  IInv'
<1> DEFINE v == req[r].event
           a == req[r].asg
           m == [req[r] EXCEPT !.pc = "crew.read"]
<1>1. /\ v \in Events /\ status[v] # "unborn" /\ req[r] \in Request
      /\ a \in AssignIds /\ a \notin unused
  BY InHand DEF SaveAssignment, At, AssignmentSteps
<1>2. m \in Request /\ MemoryOK(m, status, unused, taken)
  BY <1>1 DEF Request, Steps, MemoryOK, AssignmentSteps
<1>3. CASE Live(v)
  <2>1. /\ home' = [home EXCEPT ![a] = v]
        /\ Becomes(r, m) \/ Becomes(r, Idle)
        /\ UNCHANGED <<status, signed, edition, unused, crew, taken, overlapped>>
    BY <1>3 DEF SaveAssignment
  <2>2. req' \in [Requests -> Request] /\ MemoriesOK'
    BY <1>2, <2>1, IdleIsSound, OneMemoryChanges DEF IInv
  <2>3. TypeOK'
    BY <1>1, <1>3, <2>1, <2>2 DEF SaveAssignment, IInv, TypeOK
  <2>4. NothingYet' /\ StatusTaken' /\ RosterIntegrity'
    BY <1>1, <1>3 DEF SaveAssignment, IInv, TypeOK, NothingYet, StatusTaken, RosterIntegrity, Live
  <2> QED
    BY <2>2, <2>3, <2>4 DEF IInv
<1>4. CASE ~ Live(v)
  BY <1>4, IdleIsSound, OnlyMemoryChanges DEF SaveAssignment, IInv, TypeOK, roster
<1> QED
  BY <1>3, <1>4

LEMMA WriteCrewSound ==
  ASSUME IInv, NEW r \in Requests, WriteCrew(r)
  PROVE  IInv'
<1>1. /\ req[r].asg \in AssignIds /\ req[r].want \in SUBSET Employees
      /\ req[r].old \in SUBSET Employees
  BY InHand DEF WriteCrew, At, AssignmentSteps
<1>2. Becomes(r, Idle) /\ UNCHANGED <<status, signed, edition, home, unused, taken, overlapped>>
  BY DEF WriteCrew
<1>3. req' \in [Requests -> Request] /\ MemoriesOK'
  BY <1>2, IdleIsSound, OneMemoryChanges DEF IInv
<1>4. crew' \in [AssignIds -> SUBSET Employees]
  BY <1>1 DEF WriteCrew, IInv, TypeOK
<1>5. TypeOK'
  BY <1>2, <1>3, <1>4 DEF IInv, TypeOK
<1>6. \A a \in AssignIds : crew'[a] # {} => home[a] # None
  BY <1>1 DEF WriteCrew, IInv, TypeOK, RosterIntegrity
<1>7. NothingYet' /\ StatusTaken' /\ RosterIntegrity'
  BY <1>2, <1>6 DEF IInv, NothingYet, StatusTaken, RosterIntegrity, Live
<1> QED
  BY <1>3, <1>5, <1>7 DEF IInv

LEMMA DeleteAssignmentSound ==
  ASSUME IInv, NEW r \in Requests, DeleteAssignment(r)
  PROVE  IInv'
<1>1. req[r].asg \in AssignIds
  BY InHand DEF DeleteAssignment, At, AssignmentSteps
<1>2. Becomes(r, Idle) /\ UNCHANGED <<status, signed, edition, unused, taken, overlapped>>
  BY DEF DeleteAssignment
<1>3. req' \in [Requests -> Request] /\ MemoriesOK'
  BY <1>2, IdleIsSound, OneMemoryChanges DEF IInv
<1>4. TypeOK'
  BY <1>1, <1>2, <1>3 DEF DeleteAssignment, IInv, TypeOK
<1>5. NothingYet' /\ StatusTaken' /\ RosterIntegrity'
  BY <1>1, <1>2 DEF DeleteAssignment, IInv, TypeOK, NothingYet, StatusTaken, RosterIntegrity, Live
<1> QED
  BY <1>3, <1>4, <1>5 DEF IInv

LEMMA DecideSound ==
  ASSUME IInv, NEW r \in Requests, NEW step \in Steps \ {"idle"}, NEW decision \in Decisions,
         Decide(r, step, decision)
  PROVE  IInv'
<1> DEFINE v == req[r].event
<1>1. v \in Events /\ status[v] # "unborn"
  BY InHand DEF Decide, At
<1>2. Becomes(r, Idle) /\ UNCHANGED <<edition, roster, overlapped>>
  BY DEF Decide
<1>3. CASE Live(v)
  <2>1. /\ status' = [status EXCEPT ![v] = decision]
        /\ signed' = [signed EXCEPT ![v] = @ \cup {decision}]
        /\ taken' = [taken EXCEPT ![v] = @ \cup {decision}]
    BY <1>3 DEF Decide
  <2>2. req' \in [Requests -> Request] /\ MemoriesOK'
    BY <1>1, <1>2, <2>1, IdleIsSound, OneMemoryChanges DEF IInv, TypeOK, roster, Decisions
  <2>3. TypeOK'
    BY <1>1, <1>2, <2>1, <2>2 DEF IInv, TypeOK, roster, Status
  <2>4. NothingYet' /\ StatusTaken' /\ RosterIntegrity'
    BY <1>1, <1>2, <2>1 DEF IInv, TypeOK, NothingYet, StatusTaken, RosterIntegrity, Live, Status,
       roster, Decisions
  <2> QED
    BY <2>2, <2>3, <2>4 DEF IInv
<1>4. CASE ~ Live(v)
  BY <1>2, <1>4, IdleIsSound, OnlyMemoryChanges DEF Decide, IInv, TypeOK
<1> QED
  BY <1>3, <1>4

LEMMA AssignmentRequestSound ==
  ASSUME IInv, NEW r \in Requests, NEW a \in AssignIds, NEW W \in SUBSET Employees,
         NEW step \in {"patch.crew", "patch.note", "assign.delete"},
         BeginAssignmentEdit(r, step, a, W)
  PROVE  IInv'
<1> DEFINE m == [Idle EXCEPT !.pc = step, !.event = home[a], !.asg = a, !.want = W]
<1>1. home[a] \in Events /\ a \notin unused /\ status[home[a]] # "unborn"
  BY DEF BeginAssignmentEdit, IInv, TypeOK, NothingYet
<1>2. m \in Request
  BY <1>1, IdleIsSound DEF Request, Steps
<1>3. MemoryOK(m, status, unused, taken)
  BY <1>1 DEF MemoryOK, Idle, AssignmentSteps
<1>4. overlapped' \in BOOLEAN /\ Becomes(r, m) /\ UNCHANGED <<status, signed, edition, roster, taken>>
  BY DEF BeginAssignmentEdit, IInv, TypeOK
<1> QED
  BY <1>2, <1>3, <1>4, OnlyMemoryChanges

LEMMA BeginAssignSound ==
  ASSUME IInv, NEW r \in Requests, NEW v \in Events, NEW W \in SUBSET Employees, BeginAssign(r, v, W)
  PROVE  IInv'
<1> DEFINE m == [Idle EXCEPT !.pc = "assign.insert", !.event = v, !.want = W]
<1>1. m \in Request
  BY IdleIsSound DEF Request, Steps
<1>2. MemoryOK(m, status, unused, taken)
  BY DEF MemoryOK, Idle, AssignmentSteps, BeginAssign
<1>3. overlapped' \in BOOLEAN /\ Becomes(r, m) /\ UNCHANGED <<status, signed, edition, roster, taken>>
  BY DEF BeginAssign, IInv, TypeOK
<1> QED
  BY <1>1, <1>2, <1>3, OnlyMemoryChanges

LEMMA ReadCrewSound ==
  ASSUME IInv, NEW r \in Requests, ReadCrew(r)
  PROVE  IInv'
<1> DEFINE m == [req[r] EXCEPT !.pc = "crew.write", !.old = crew[req[r].asg]]
<1>1. /\ req[r] \in Request /\ MemoryOK(req[r], status, unused, taken)
      /\ req[r].asg \in AssignIds /\ req[r].pc = "crew.read"
  BY InHand DEF ReadCrew, At, AssignmentSteps
<1>2. m \in Request
  BY <1>1 DEF Request, Steps, IInv, TypeOK
<1>3. MemoryOK(m, status, unused, taken)
  BY <1>1 DEF Request, MemoryOK, AssignmentSteps
<1> QED
  BY <1>2, <1>3, OnlyMemoryChanges DEF ReadCrew, IInv, TypeOK

LEMMA CheckStaffedSound ==
  ASSUME IInv, NEW r \in Requests, CheckStaffed(r)
  PROVE  IInv'
<1> DEFINE m == [req[r] EXCEPT !.pc = "submit"]
<1>1. req[r] \in Request /\ MemoryOK(req[r], status, unused, taken) /\ req[r].pc = "submit.check"
  BY InHand DEF CheckStaffed, At
<1>2. m \in Request /\ MemoryOK(m, status, unused, taken)
  BY <1>1 DEF Request, Steps, MemoryOK, AssignmentSteps
<1>3. CASE Becomes(r, m)
  BY <1>2, <1>3, OnlyMemoryChanges DEF CheckStaffed, IInv, TypeOK
<1>4. CASE Becomes(r, Idle)
  BY <1>4, IdleIsSound, OnlyMemoryChanges DEF CheckStaffed, IInv, TypeOK
<1> QED
  BY <1>3, <1>4 DEF CheckStaffed

LEMMA EditStepsSound ==
  ASSUME IInv, NEW r \in Requests, EditSteps(r)
  PROVE  IInv'
<1>1. ASSUME NEW v \in Events, BeginPatchEvent(r, v) \/ BeginDiscard(r, v)
      PROVE  IInv'
  BY <1>1, BeginSound DEF BeginPatchEvent, BeginDiscard, Steps, AssignmentSteps, Status
<1>2. ASSUME NEW a \in AssignIds, BeginPatchNote(r, a) \/ BeginDeleteAssignment(r, a)
      PROVE  IInv'
  BY <1>2, AssignmentRequestSound DEF BeginPatchNote, BeginDeleteAssignment
<1>3. ASSUME NEW a \in AssignIds, NEW W \in SUBSET Employees, BeginPatchCrew(r, a, W)
      PROVE  IInv'
  BY <1>3, AssignmentRequestSound DEF BeginPatchCrew
<1> QED
  BY <1>1, <1>2, <1>3, SaveEventSound, DiscardSound, BeginAssignSound, InsertAssignmentSound,
     SaveAssignmentSound, ReadCrewSound, WriteCrewSound, DeleteAssignmentSound DEF EditSteps

LEMMA ChainStepsSound ==
  ASSUME IInv, NEW r \in Requests, ChainSteps(r)
  PROVE  IInv'
<1>1. /\ {"submit.check", "collect", "approve", "reject"} \subseteq Steps \ AssignmentSteps
      /\ {"submit", "collect", "approve", "reject"} \subseteq Steps \ {"idle"}
  BY DEF Steps, AssignmentSteps
<1>2. /\ {"SUBMITTED", "COLLECTED", "APPROVED", "REJECTED"} \subseteq Decisions
      /\ Decisions \subseteq Status /\ "DRAFT" \in Status
  BY DEF Decisions, Status
<1>3. ASSUME NEW v \in Events, BeginSubmit(r, v)
      PROVE  IInv'
  BY <1>1, <1>2, <1>3, BeginSound DEF BeginSubmit
<1>4. ASSUME NEW v \in Events, BeginCollect(r, v)
      PROVE  IInv'
  <2>1. "SUBMITTED" \in taken[v]
    BY <1>2, <1>4 DEF BeginCollect, Begin, IInv, StatusTaken
  <2> QED
    BY <1>1, <1>2, <1>4, <2>1, BeginSound DEF BeginCollect
<1>5. ASSUME NEW v \in Events, BeginApprove(r, v)
      PROVE  IInv'
  <2>1. "COLLECTED" \in taken[v]
    BY <1>2, <1>5 DEF BeginApprove, Begin, IInv, StatusTaken
  <2> QED
    BY <1>1, <1>2, <1>5, <2>1, BeginSound DEF BeginApprove
<1>6. ASSUME NEW v \in Events, BeginReject(r, v)
      PROVE  IInv'
  <2>1. taken[v] \cap {"SUBMITTED", "COLLECTED"} # {}
    BY <1>2, <1>6 DEF BeginReject, Begin, IInv, StatusTaken
  <2> QED
    BY <1>1, <1>2, <1>6, <2>1, BeginSound DEF BeginReject
<1>7. ASSUME SaveSubmit(r) \/ SaveCollect(r) \/ SaveApprove(r) \/ SaveReject(r)
      PROVE  IInv'
  BY <1>1, <1>2, <1>7, DecideSound DEF SaveSubmit, SaveCollect, SaveApprove, SaveReject
<1> QED
  BY <1>3, <1>4, <1>5, <1>6, <1>7, CheckStaffedSound DEF ChainSteps

LEMMA IInvPreserved == IInv /\ [Next]_vars => IInv'
<1> SUFFICES ASSUME IInv, [Next]_vars
             PROVE  IInv'
  OBVIOUS
<1>1. CASE UNCHANGED vars
  BY <1>1 DEF vars, roster, IInv, TypeOK, MemoriesOK, NothingYet, StatusTaken, RosterIntegrity, Live
<1>2. ASSUME NEW r \in Requests, Abort(r)
      PROVE  IInv'
  BY <1>2, IdleIsSound, OnlyMemoryChanges DEF Abort, IInv, TypeOK
<1> QED
  BY <1>1, <1>2, CreateSound, EditStepsSound, ChainStepsSound DEF Next

LEMMA IInvHolds == Spec => []IInv
  BY IInvInitially, IInvPreserved, PTL DEF Spec

\* Whatever requests overlap, rows keep their shapes, a decision in memory rests on one that was
\* taken, and no assignment or employee outlives its event (SaveEvent, Decide, Discard).
THEOREM ConsistentHolds == Spec => []Consistent
<1>1. IInv => Consistent
  BY DEF IInv, Consistent, InFlight, MemoriesOK, MemoryOK, At
<1> QED
  BY <1>1, IInvHolds, PTL

-----------------------------------------------------------------------------
(* The approval chain of any interleaving                                             *)

LEMMA HistoryStep ==
  ASSUME IInv, [Next]_vars
  PROVE  [History!Next]_(History!vars)
<1>1. CASE UNCHANGED <<status, taken>>
  BY <1>1 DEF History!vars
<1>2. ASSUME NEW v \in Events, CreateEvent(v)
      PROVE  History!Next
  BY <1>2 DEF CreateEvent, History!Next, History!Open
<1>3. ASSUME NEW r \in Requests, Discard(r)
      PROVE  History!Next
  <2>1. req[r].event \in Events /\ status[req[r].event] # "unborn"
    BY <1>3, InHand DEF Discard, At
  <2> QED
    BY <1>3, <2>1 DEF Discard, History!Next, History!Discard
<1>4. ASSUME NEW r \in Requests, SaveEvent(r)
      PROVE  History!Next
  <2>1. req[r].event \in Events /\ status[req[r].event] # "unborn"
    BY <1>4, InHand DEF SaveEvent, At
  <2> QED
    BY <1>4, <2>1 DEF SaveEvent, History!Next, History!Rewrite
<1>5. ASSUME NEW r \in Requests, NEW step \in Steps \ {"idle"}, NEW x \in Decisions,
             Decide(r, step, x), Live(req[r].event),
             Needs[x] = {} \/ Needs[x] \cap taken[req[r].event] # {}
      PROVE  History!Next
  <2>1. req[r].event \in Events
    BY <1>5, InHand DEF Decide, At
  <2>2. status[req[r].event] \notin History!Absent
    BY <1>5 DEF Live, Status, Decisions, History!Absent
  <2> QED
    BY <1>5, <2>1, <2>2 DEF Decide, History!Next, History!Take
<1>6. ASSUME NEW r \in Requests, SaveSubmit(r) \/ SaveCollect(r) \/ SaveApprove(r) \/ SaveReject(r),
             ~ UNCHANGED <<status, taken>>
      PROVE  History!Next
  <2>1. Live(req[r].event)
    BY <1>6 DEF SaveSubmit, SaveCollect, SaveApprove, SaveReject, Decide
  <2>2. MemoryOK(req[r], status, unused, taken)
    BY DEF IInv, MemoriesOK
  <2>3. CASE SaveSubmit(r)
    <3>1. Needs["SUBMITTED"] = {} /\ "SUBMITTED" \in Decisions
      BY DEF Needs, Decisions
    <3> QED
      BY <1>5, <2>1, <2>3, <3>1 DEF SaveSubmit, Steps
  <2>4. CASE SaveCollect(r)
    <3>1. Needs["COLLECTED"] = {"SUBMITTED"} /\ "COLLECTED" \in Decisions
      BY DEF Needs, Decisions
    <3>2. "SUBMITTED" \in taken[req[r].event]
      BY <2>2, <2>4 DEF MemoryOK, SaveCollect, Decide, At
    <3> QED
      BY <1>5, <2>1, <2>4, <3>1, <3>2 DEF SaveCollect, Steps
  <2>5. CASE SaveApprove(r)
    <3>1. Needs["APPROVED"] = {"COLLECTED"} /\ "APPROVED" \in Decisions
      BY DEF Needs, Decisions
    <3>2. "COLLECTED" \in taken[req[r].event]
      BY <2>2, <2>5 DEF MemoryOK, SaveApprove, Decide, At
    <3> QED
      BY <1>5, <2>1, <2>5, <3>1, <3>2 DEF SaveApprove, Steps
  <2>6. CASE SaveReject(r)
    <3>1. Needs["REJECTED"] = {"SUBMITTED", "COLLECTED"} /\ "REJECTED" \in Decisions
      BY DEF Needs, Decisions
    <3>2. taken[req[r].event] \cap {"SUBMITTED", "COLLECTED"} # {}
      BY <2>2, <2>6 DEF MemoryOK, SaveReject, Decide, At
    <3> QED
      BY <1>5, <2>1, <2>6, <3>1, <3>2 DEF SaveReject, Steps
  <2> QED
    BY <1>6, <2>3, <2>4, <2>5, <2>6
<1>7. ASSUME NEW r \in Requests, EditSteps(r), ~ Discard(r), ~ SaveEvent(r)
      PROVE  UNCHANGED <<status, taken>>
  BY <1>7 DEF EditSteps, BeginPatchEvent, BeginDiscard, Begin, BeginAssign, InsertAssignment,
     BeginPatchCrew, BeginPatchNote, BeginDeleteAssignment, BeginAssignmentEdit, SaveAssignment,
     ReadCrew, WriteCrew, DeleteAssignment
<1>8. ASSUME NEW r \in Requests, ChainSteps(r)
      PROVE  \/ UNCHANGED <<status, taken>>
             \/ SaveSubmit(r) \/ SaveCollect(r) \/ SaveApprove(r) \/ SaveReject(r)
  BY <1>8 DEF ChainSteps, BeginSubmit, BeginCollect, BeginApprove, BeginReject, Begin, CheckStaffed
<1>9. ASSUME NEW r \in Requests, Abort(r)
      PROVE  UNCHANGED <<status, taken>>
  BY <1>9 DEF Abort
<1>10. CASE UNCHANGED vars
  BY <1>1, <1>10 DEF vars
<1> QED
  BY <1>1, <1>2, <1>3, <1>4, <1>6, <1>7, <1>8, <1>9, <1>10 DEF Next

\* Under every interleaving of stale decisions and whole-row edits the events keep what
\* ApprovalHistory promises.
THEOREM HistoryHolds == Spec => HistorySpec
<1>1. Init => History!Init
  BY DEF Init, History!Init
<1>2. IInv /\ [Next]_vars => [History!Next]_(History!vars)
  BY HistoryStep
<1> QED
  BY <1>1, <1>2, IInvHolds, PTL DEF Spec, HistorySpec, History!Spec

\* So no event is ever approved that was not collected, nor collected or rejected that was not
\* submitted, and its status is one that somebody gave it.
THEOREM DecisionsInOrder == Spec => []History!InOrder
<1>1. Init => History!InOrder
  BY DEF Init, History!InOrder, History!Absent
<1>2. ASSUME TypeOK, History!InOrder, [History!Next]_(History!vars)
      PROVE  History!InOrder'
  <2> SUFFICES ASSUME NEW v \in Events
               PROVE  /\ \A x \in taken'[v] : Needs[x] = {} \/ Needs[x] \cap taken'[v] # {}
                      /\ status'[v] \in taken'[v] \cup {"DRAFT"} \cup History!Absent
    BY DEF History!InOrder
  <2>1. /\ \A x \in taken[v] : Needs[x] = {} \/ Needs[x] \cap taken[v] # {}
        /\ status[v] \in taken[v] \cup {"DRAFT"} \cup History!Absent
    BY <1>2 DEF History!InOrder
  <2>2. CASE UNCHANGED <<status, taken>>
    BY <2>1, <2>2
  <2>3. ASSUME NEW w \in Events, History!Open(w) \/ History!Discard(w) \/ History!Rewrite(w)
        PROVE  taken' = taken /\ status'[v] \in taken[v] \cup {"DRAFT"} \cup History!Absent
    BY <1>2, <2>1, <2>3 DEF TypeOK, History!Open, History!Discard, History!Rewrite, History!Absent
  <2>4. ASSUME NEW w \in Events, NEW x \in Decisions, History!Take(w, x)
        PROVE  \/ taken'[v] = taken[v] /\ status'[v] = status[v]
               \/ /\ taken'[v] = taken[v] \cup {x} /\ status'[v] = x
                  /\ Needs[x] = {} \/ Needs[x] \cap taken[v] # {}
    BY <1>2, <2>4 DEF TypeOK, History!Take
  <2> QED
    BY <1>2, <2>1, <2>2, <2>3, <2>4 DEF History!Next, History!vars
<1>3. IInv /\ History!InOrder /\ [Next]_vars => History!InOrder'
  BY <1>2, HistoryStep DEF IInv
<1> QED
  BY <1>1, <1>3, IInvHolds, PTL DEF Spec

-----------------------------------------------------------------------------
(* Until two requests overlap                                                         *)

\* What the memory of a request says of the rows as they are.
Current(m) ==
  /\ m.pc \in DraftSteps => status[m.event] = "DRAFT"
  /\ m.pc \in AssignmentSteps => home[m.asg] = m.event
  /\ m.pc = "patch" => m.sigs = signed[m.event] /\ m.ed = edition[m.event]
  /\ m.pc = "crew.write" => m.old = crew[m.asg]
  /\ m.pc = "submit" => Staffed(m.event)
  /\ m.pc = "collect" => status[m.event] = "SUBMITTED"
  /\ m.pc = "approve" => status[m.event] = "COLLECTED"
  /\ m.pc = "reject" => status[m.event] \in {"SUBMITTED", "COLLECTED"}

\* The signatures of an event that exists are the decisions taken about it, in their order.
Orderly(v) ==
  /\ signed[v] = taken[v]
  /\ status[v] = "DRAFT" => taken[v] = {}
  /\ status[v] \in Decisions => "SUBMITTED" \in taken[v]
  /\ "APPROVED" \in taken[v] <=> status[v] = "APPROVED"
  /\ status[v] \in UnderReview => Staffed(v)

AllOrderly == \A v \in Events : Live(v) => Orderly(v)

\* One request at most is under way, and what it holds is what the rows say.
Serial ==
  /\ \A r, q \in Requests : r = q \/ At(r, "idle") \/ At(q, "idle")
  /\ \A r \in Requests : Current(req[r])
  /\ AllOrderly

SInv == IInv /\ (overlapped \/ Serial)

LEMMA IdleIsCurrent ==
  ASSUME NEW r \in Requests, req'[r] = Idle
  PROVE  Current(req[r])'
BY DEF Current, Idle, DraftSteps, AssignmentSteps

\* The one request under way goes on.
LEMMA OneAtATime ==
  ASSUME TypeOK, Serial, NEW r \in Requests, ~ At(r, "idle"), NEW m, Becomes(r, m),
         Current(req[r])', AllOrderly'
  PROVE  Serial'
<1>1. ASSUME NEW q \in Requests, q # r
      PROVE  req[q].pc = "idle" /\ req'[q] = req[q]
  BY <1>1 DEF Serial, At, Becomes, TypeOK
<1>2. ASSUME NEW q \in Requests
      PROVE  Current(req[q])'
  <2>1. CASE q = r
    BY <2>1
  <2>2. CASE q # r
    BY <1>1, <2>2 DEF Current, DraftSteps, AssignmentSteps
  <2> QED
    BY <2>1, <2>2
<1>3. \A q, p \in Requests : q = p \/ At(q, "idle")' \/ At(p, "idle")'
  BY <1>1 DEF At
<1> QED
  BY <1>2, <1>3 DEF Serial

\* A request arrives while no other is under way.
LEMMA FirstToArrive ==
  ASSUME TypeOK, Serial, NEW r \in Requests, NEW m, At(r, "idle"), Becomes(r, m),
         overlapped' = (overlapped \/ \E q \in Requests \ {r} : ~ At(q, "idle")), ~ overlapped',
         UNCHANGED <<status, signed, edition, roster, taken>>, Current(req[r])'
  PROVE  Serial'
<1>1. ASSUME NEW q \in Requests, q # r
      PROVE  req[q].pc = "idle" /\ req'[q] = req[q]
  BY <1>1 DEF At, Becomes, TypeOK
<1>2. ASSUME NEW q \in Requests
      PROVE  Current(req[q])'
  <2>1. CASE q = r
    BY <2>1
  <2>2. CASE q # r
    BY <1>1, <2>2 DEF Current, DraftSteps, AssignmentSteps
  <2> QED
    BY <2>1, <2>2
<1>3. \A q, p \in Requests : q = p \/ At(q, "idle")' \/ At(p, "idle")'
  BY <1>1 DEF At
<1>4. AllOrderly'
  BY DEF Serial, AllOrderly, Orderly, Live, Staffed, roster
<1> QED
  BY <1>2, <1>3, <1>4 DEF Serial

\* No decision is taken, and no event but a draft loses an employee.
LEMMA DraftsOnly ==
  ASSUME AllOrderly, UNCHANGED <<status, signed, taken>>,
         \A v \in Events : status[v] \in UnderReview /\ Staffed(v) => Staffed(v)'
  PROVE  AllOrderly'
BY DEF AllOrderly, Orderly, Live

\* Creating an event touches none that a request is about.
LEMMA CreateIsSerial ==
  ASSUME IInv, Serial, NEW v \in Events, CreateEvent(v)
  PROVE  Serial'
<1>1. /\ status[v] = "unborn" /\ signed[v] = {} /\ taken[v] = {}
      /\ status' = [status EXCEPT ![v] = "DRAFT"] /\ status \in [Events -> Status \cup Absent]
      /\ UNCHANGED <<signed, edition, home, unused, crew, req, taken, overlapped>>
  BY DEF CreateEvent, IInv, NothingYet, TypeOK, roster
<1>2. ASSUME NEW r \in Requests
      PROVE  Current(req[r])'
  <2>1. Current(req[r]) /\ MemoryOK(req[r], status, unused, taken)
    BY DEF Serial, IInv, MemoriesOK
  <2> QED
    BY <1>1, <2>1 DEF Current, MemoryOK, Staffed, DraftSteps, AssignmentSteps
<1>3. AllOrderly'
  <2> SUFFICES ASSUME NEW w \in Events, Live(w)'
               PROVE  Orderly(w)'
    BY DEF AllOrderly
  <2>1. CASE w = v
    BY <1>1, <2>1 DEF Orderly, Decisions, UnderReview
  <2>2. CASE w # v
    <3>1. status'[w] = status[w] /\ Live(w)
      BY <1>1, <2>2 DEF Live
    <3> QED
      BY <1>1, <3>1 DEF Serial, AllOrderly, Orderly, Staffed
  <2> QED
    BY <2>1, <2>2
<1>4. \A q, p \in Requests : q = p \/ At(q, "idle")' \/ At(p, "idle")'
  BY <1>1 DEF Serial, At
<1> QED
  BY <1>2, <1>3, <1>4 DEF Serial

LEMMA BeginIsSerial ==
  ASSUME IInv, Serial, NEW r \in Requests, NEW v \in Events,
         NEW step \in Steps \ (AssignmentSteps \cup {"submit"}), NEW from \in SUBSET Status,
         Begin(r, step, v, from), ~ overlapped',
         step \in DraftSteps => from = {"DRAFT"},
         step = "collect" => from = {"SUBMITTED"},
         step = "approve" => from = {"COLLECTED"},
         step = "reject" => from = {"SUBMITTED", "COLLECTED"}
  PROVE  Serial'
<1> DEFINE m == [Idle EXCEPT !.pc = step, !.event = v, !.sigs = signed[v], !.ed = edition[v]]
<1>1. /\ status[v] \in from /\ At(r, "idle") /\ Becomes(r, m)
      /\ overlapped' = (overlapped \/ \E q \in Requests \ {r} : ~ At(q, "idle"))
      /\ UNCHANGED <<status, signed, edition, roster, taken>>
  BY DEF Begin
<1>2. req'[r] = m
  BY <1>1 DEF Becomes, IInv, TypeOK
<1>3. /\ m.pc = step /\ m.event = v /\ m.sigs = signed[v] /\ m.ed = edition[v]
      /\ step \notin AssignmentSteps /\ step # "submit" /\ step # "crew.write"
  BY DEF Idle, AssignmentSteps
<1>4. Current(req[r])'
  BY <1>1, <1>2, <1>3 DEF Current
<1> QED
  BY <1>1, <1>4, FirstToArrive DEF IInv

LEMMA BeginAssignIsSerial ==
  ASSUME IInv, Serial, NEW r \in Requests, NEW v \in Events, NEW W \in SUBSET Employees,
         BeginAssign(r, v, W), ~ overlapped'
  PROVE  Serial'
<1>1. req'[r] = [Idle EXCEPT !.pc = "assign.insert", !.event = v, !.want = W]
  BY DEF BeginAssign, Becomes, IInv, TypeOK
<1>2. Current(req[r])'
  BY <1>1 DEF BeginAssign, Current, Idle, AssignmentSteps
<1> QED
  BY <1>2, FirstToArrive DEF BeginAssign, IInv

LEMMA AssignmentRequestIsSerial ==
  ASSUME IInv, Serial, NEW r \in Requests, NEW a \in AssignIds, NEW W \in SUBSET Employees,
         NEW step \in {"patch.crew", "patch.note", "assign.delete"},
         BeginAssignmentEdit(r, step, a, W), ~ overlapped'
  PROVE  Serial'
<1>1. req'[r] = [Idle EXCEPT !.pc = step, !.event = home[a], !.asg = a, !.want = W]
  BY DEF BeginAssignmentEdit, Becomes, IInv, TypeOK
<1>2. Current(req[r])'
  BY <1>1 DEF BeginAssignmentEdit, Current, Idle, AssignmentSteps, roster
<1> QED
  BY <1>2, FirstToArrive DEF BeginAssignmentEdit, IInv

LEMMA SaveEventIsSerial ==
  ASSUME IInv, Serial, NEW r \in Requests, SaveEvent(r)
  PROVE  Serial'
<1> DEFINE v == req[r].event
<1>1. v \in Events /\ ~ At(r, "idle")
  BY InHand DEF SaveEvent, At
<1>2. status[v] = "DRAFT" /\ req[r].sigs = signed[v]
  BY DEF SaveEvent, At, Serial, Current, DraftSteps
<1>3. UNCHANGED <<status, signed, home, unused, crew, taken>>
  BY <1>1, <1>2 DEF SaveEvent, IInv, TypeOK, roster
<1>4. AllOrderly'
  BY <1>3, DraftsOnly DEF Serial, Staffed
<1>5. Current(req[r])' /\ Becomes(r, Idle)
  BY IdleIsCurrent DEF SaveEvent, Becomes, IInv, TypeOK
<1> QED
  BY <1>1, <1>4, <1>5, OneAtATime DEF IInv

LEMMA DiscardIsSerial ==
  ASSUME IInv, Serial, NEW r \in Requests, Discard(r)
  PROVE  Serial'
<1> DEFINE v == req[r].event
<1>1. v \in Events /\ ~ At(r, "idle")
  BY InHand DEF Discard, At
<1>2. /\ status' = [status EXCEPT ![v] = "deleted"]
      /\ home' = [a \in AssignIds |-> IF home[a] = v THEN None ELSE home[a]]
      /\ crew' = [a \in AssignIds |-> IF home[a] = v THEN {} ELSE crew[a]]
      /\ UNCHANGED <<signed, taken>> /\ Becomes(r, Idle)
  BY DEF Discard
<1>3. AllOrderly'
  <2> SUFFICES ASSUME NEW w \in Events, Live(w)'
               PROVE  Orderly(w)'
    BY DEF AllOrderly
  <2>1. w # v /\ status'[w] = status[w]
    BY <1>1, <1>2 DEF Live, IInv, TypeOK, Status, Decisions
  <2>2. Staffed(w)' <=> Staffed(w)
    BY <1>2, <2>1 DEF Staffed
  <2>3. Orderly(w)
    BY <2>1 DEF Serial, AllOrderly, Live
  <2> QED
    BY <1>2, <2>1, <2>2, <2>3 DEF Orderly
<1>4. Current(req[r])'
  BY <1>2, IdleIsCurrent DEF Becomes, IInv, TypeOK
<1> QED
  BY <1>1, <1>2, <1>3, <1>4, OneAtATime DEF IInv

LEMMA InsertAssignmentIsSerial ==
  ASSUME IInv, Serial, NEW r \in Requests, InsertAssignment(r)
  PROVE  Serial'
<1> DEFINE v == req[r].event
<1>1. v \in Events /\ ~ At(r, "idle") /\ req[r] \in Request
  BY InHand DEF InsertAssignment, At
<1>2. status[v] = "DRAFT"
  BY DEF InsertAssignment, At, Serial, Current, DraftSteps
<1>3. UNCHANGED <<status, signed, crew, taken>>
  BY DEF InsertAssignment
<1>4. PICK a \in unused : /\ home' = [home EXCEPT ![a] = v]
                          /\ Becomes(r, [req[r] EXCEPT !.pc = "crew.read", !.asg = a])
  BY <1>2 DEF InsertAssignment, Live, Status
<1>5. a \in AssignIds /\ home[a] = None
  BY DEF IInv, TypeOK, NothingYet
<1>6. \A w \in Events : Staffed(w) => Staffed(w)'
  BY <1>3, <1>4, <1>5 DEF Staffed, IInv, TypeOK
<1>7. AllOrderly'
  BY <1>3, <1>6, DraftsOnly DEF Serial
<1>8. req'[r] = [req[r] EXCEPT !.pc = "crew.read", !.asg = a] /\ home'[a] = v
  BY <1>4, <1>5 DEF Becomes, IInv, TypeOK
<1>9. Current(req[r])'
  BY <1>1, <1>2, <1>3, <1>8 DEF Current, Request
<1> QED
  BY <1>1, <1>4, <1>7, <1>9, OneAtATime DEF IInv

LEMMA SaveAssignmentIsSerial ==
  ASSUME IInv, Serial, NEW r \in Requests, SaveAssignment(r)
  PROVE  Serial'
<1> DEFINE v == req[r].event
           a == req[r].asg
           m == IF At(r, "patch.crew") THEN [req[r] EXCEPT !.pc = "crew.read"] ELSE Idle
<1>1. v \in Events /\ a \in AssignIds /\ ~ At(r, "idle") /\ req[r] \in Request
  BY InHand DEF SaveAssignment, At, AssignmentSteps
<1>2. status[v] = "DRAFT" /\ home[a] = v
  BY DEF SaveAssignment, At, Serial, Current, DraftSteps, AssignmentSteps
<1>3. UNCHANGED <<status, signed, home, crew, taken>> /\ Becomes(r, m)
  BY <1>1, <1>2 DEF SaveAssignment, Live, Status, IInv, TypeOK
<1>4. AllOrderly'
  BY <1>3, DraftsOnly DEF Serial, Staffed
<1>5. req'[r] = m
  BY <1>3 DEF Becomes, IInv, TypeOK
<1>6. CASE At(r, "patch.crew")
  <2>1. /\ req'[r].pc = "crew.read" /\ req'[r].event = v /\ req'[r].asg = a
    BY <1>1, <1>5, <1>6 DEF Request
  <2>2. Current(req[r])'
    BY <1>2, <1>3, <2>1 DEF Current
  <2> QED
    BY <1>1, <1>3, <1>4, <2>2, OneAtATime DEF IInv
<1>7. CASE ~ At(r, "patch.crew")
  BY <1>1, <1>3, <1>4, <1>5, <1>7, IdleIsCurrent, OneAtATime DEF IInv
<1> QED
  BY <1>6, <1>7

LEMMA ReadCrewIsSerial ==
  ASSUME IInv, Serial, NEW r \in Requests, ReadCrew(r)
  PROVE  Serial'
<1>1. ~ At(r, "idle") /\ req[r] \in Request
  BY InHand DEF ReadCrew, At
<1>2. /\ Becomes(r, [req[r] EXCEPT !.pc = "crew.write", !.old = crew[req[r].asg]])
      /\ UNCHANGED <<status, signed, edition, home, unused, crew, taken>>
  BY DEF ReadCrew, roster
<1>3. /\ req'[r].pc = "crew.write" /\ req'[r].event = req[r].event /\ req'[r].asg = req[r].asg
      /\ req'[r].old = crew[req[r].asg]
  BY <1>1, <1>2 DEF Becomes, IInv, TypeOK, Request
<1>4. Current(req[r]) /\ req[r].pc = "crew.read"
  BY DEF Serial, ReadCrew, At
<1>5. Current(req[r])'
  BY <1>2, <1>3, <1>4 DEF Current, DraftSteps, AssignmentSteps
<1>6. AllOrderly'
  BY <1>2, DraftsOnly DEF Serial, Staffed
<1> QED
  BY <1>1, <1>2, <1>5, <1>6, OneAtATime DEF IInv

LEMMA WriteCrewIsSerial ==
  ASSUME IInv, Serial, NEW r \in Requests, WriteCrew(r)
  PROVE  Serial'
<1> DEFINE a == req[r].asg
<1>1. ~ At(r, "idle") /\ a \in AssignIds
  BY InHand DEF WriteCrew, At, AssignmentSteps
<1>2. status[req[r].event] = "DRAFT" /\ home[a] = req[r].event
  BY DEF Serial, WriteCrew, At, Current, DraftSteps, AssignmentSteps
<1>3. /\ Becomes(r, Idle) /\ UNCHANGED <<status, signed, home, taken>>
      /\ \A b \in AssignIds : b # a => crew'[b] = crew[b]
  BY DEF WriteCrew, IInv, TypeOK
<1>4. \A v \in Events : status[v] \in UnderReview /\ Staffed(v) => Staffed(v)'
  BY <1>2, <1>3 DEF Staffed, UnderReview
<1>5. AllOrderly'
  BY <1>3, <1>4, DraftsOnly DEF Serial
<1>6. Current(req[r])'
  BY <1>3, IdleIsCurrent DEF Becomes, IInv, TypeOK
<1> QED
  BY <1>1, <1>3, <1>5, <1>6, OneAtATime DEF IInv

LEMMA DeleteAssignmentIsSerial ==
  ASSUME IInv, Serial, NEW r \in Requests, DeleteAssignment(r)
  PROVE  Serial'
<1> DEFINE a == req[r].asg
<1>1. ~ At(r, "idle") /\ a \in AssignIds
  BY InHand DEF DeleteAssignment, At, AssignmentSteps
<1>2. status[req[r].event] = "DRAFT" /\ home[a] = req[r].event
  BY DEF Serial, DeleteAssignment, At, Current, DraftSteps, AssignmentSteps
<1>3. /\ Becomes(r, Idle) /\ UNCHANGED <<status, signed, taken>>
      /\ \A b \in AssignIds : b # a => crew'[b] = crew[b] /\ home'[b] = home[b]
  BY DEF DeleteAssignment, IInv, TypeOK
<1>4. \A v \in Events : status[v] \in UnderReview /\ Staffed(v) => Staffed(v)'
  BY <1>2, <1>3 DEF Staffed, UnderReview
<1>5. AllOrderly'
  BY <1>3, <1>4, DraftsOnly DEF Serial
<1>6. Current(req[r])'
  BY <1>3, IdleIsCurrent DEF Becomes, IInv, TypeOK
<1> QED
  BY <1>1, <1>3, <1>5, <1>6, OneAtATime DEF IInv

LEMMA CheckStaffedIsSerial ==
  ASSUME IInv, Serial, NEW r \in Requests, CheckStaffed(r)
  PROVE  Serial'
<1> DEFINE m == IF Staffed(req[r].event) THEN [req[r] EXCEPT !.pc = "submit"] ELSE Idle
<1>1. ~ At(r, "idle") /\ req[r] \in Request /\ status[req[r].event] = "DRAFT"
  BY InHand DEF CheckStaffed, At, Serial, Current, DraftSteps
<1>2. Becomes(r, m) /\ UNCHANGED <<status, signed, edition, home, unused, crew, taken>>
  BY DEF CheckStaffed, roster
<1>3. AllOrderly'
  BY <1>2, DraftsOnly DEF Serial, Staffed
<1>4. req'[r] = m
  BY <1>2 DEF Becomes, IInv, TypeOK
<1>5. CASE Staffed(req[r].event)
  <2>1. req'[r].pc = "submit" /\ req'[r].event = req[r].event
    BY <1>1, <1>4, <1>5 DEF Request
  <2>2. Current(req[r])'
    BY <1>1, <1>2, <1>5, <2>1 DEF Current, Staffed, AssignmentSteps
  <2> QED
    BY <1>1, <1>2, <1>3, <2>2, OneAtATime DEF IInv
<1>6. CASE ~ Staffed(req[r].event)
  BY <1>1, <1>2, <1>3, <1>4, <1>6, IdleIsCurrent, OneAtATime DEF IInv
<1> QED
  BY <1>5, <1>6

\* Each decision is taken on the status it was looked up with.
LEMMA DecideIsSerial ==
  ASSUME IInv, Serial, NEW r \in Requests, SaveSubmit(r) \/ SaveCollect(r) \/ SaveApprove(r) \/ SaveReject(r)
  PROVE  Serial'
<1> DEFINE v == req[r].event
<1>1. v \in Events /\ ~ At(r, "idle")
  BY InHand DEF SaveSubmit, SaveCollect, SaveApprove, SaveReject, Decide, At
<1>2. PICK x \in Decisions :
        /\ \/ x = "SUBMITTED" /\ status[v] = "DRAFT" /\ Staffed(v)
           \/ x = "COLLECTED" /\ status[v] = "SUBMITTED"
           \/ x = "APPROVED" /\ status[v] = "COLLECTED"
           \/ x = "REJECTED" /\ status[v] \in {"SUBMITTED", "COLLECTED"}
        /\ status' = [status EXCEPT ![v] = x] /\ signed' = [signed EXCEPT ![v] = @ \cup {x}]
        /\ taken' = [taken EXCEPT ![v] = @ \cup {x}]
  BY DEF SaveSubmit, SaveCollect, SaveApprove, SaveReject, Decide, At, Serial, Current, DraftSteps,
     AssignmentSteps, Live, Status, Decisions
<1>3. Becomes(r, Idle) /\ UNCHANGED <<home, crew>>
  BY DEF SaveSubmit, SaveCollect, SaveApprove, SaveReject, Decide, roster
<1>4. AllOrderly'
  <2> SUFFICES ASSUME NEW w \in Events, Live(w)'
               PROVE  Orderly(w)'
    BY DEF AllOrderly
  <2>1. Staffed(w)' <=> Staffed(w)
    BY <1>3 DEF Staffed
  <2>2. CASE w = v
    <3>1. Orderly(v)
      BY <1>1, <1>2 DEF Serial, AllOrderly, Live, Status, Decisions
    <3>2. status'[v] = x /\ signed'[v] = signed[v] \cup {x} /\ taken'[v] = taken[v] \cup {x}
      BY <1>1, <1>2 DEF IInv, TypeOK
    <3> QED
      BY <1>2, <2>1, <2>2, <3>1, <3>2 DEF Orderly, Decisions, UnderReview
  <2>3. CASE w # v
    <3>1. status'[w] = status[w] /\ signed'[w] = signed[w] /\ taken'[w] = taken[w]
      BY <1>2, <2>3 DEF IInv, TypeOK
    <3> QED
      BY <2>1, <3>1 DEF Serial, AllOrderly, Orderly, Live
  <2> QED
    BY <2>2, <2>3
<1>5. Current(req[r])'
  BY <1>3, IdleIsCurrent DEF Becomes, IInv, TypeOK
<1> QED
  BY <1>1, <1>3, <1>4, <1>5, OneAtATime DEF IInv

LEMMA SerialInitially == Init => Serial
<1> SUFFICES ASSUME Init
             PROVE  Serial
  OBVIOUS
<1>1. \A r \in Requests : req[r] = Idle
  BY DEF Init
<1>2. \A r \in Requests : Current(req[r])
  BY <1>1 DEF Current, Idle, DraftSteps, AssignmentSteps
<1>3. \A r \in Requests : At(r, "idle")
  BY <1>1 DEF At, Idle
<1>4. AllOrderly
  BY DEF Init, AllOrderly, Live, Status, Decisions
<1> QED
  BY <1>2, <1>3, <1>4 DEF Serial

LEMMA EditsAreSerial ==
  ASSUME IInv, Serial, NEW r \in Requests, EditSteps(r), ~ overlapped'
  PROVE  Serial'
<1>1. ASSUME NEW v \in Events, BeginPatchEvent(r, v) \/ BeginDiscard(r, v)
      PROVE  Serial'
  <2>1. /\ {"patch", "discard"} \subseteq Steps \ (AssignmentSteps \cup {"submit"})
        /\ {"DRAFT"} \in SUBSET Status
    BY DEF Steps, AssignmentSteps, Status
  <2> QED
    BY <1>1, <2>1, BeginIsSerial DEF BeginPatchEvent, BeginDiscard
<1>2. ASSUME NEW a \in AssignIds, BeginPatchNote(r, a) \/ BeginDeleteAssignment(r, a)
      PROVE  Serial'
  BY <1>2, AssignmentRequestIsSerial DEF BeginPatchNote, BeginDeleteAssignment
<1>3. ASSUME NEW a \in AssignIds, NEW W \in SUBSET Employees, BeginPatchCrew(r, a, W)
      PROVE  Serial'
  BY <1>3, AssignmentRequestIsSerial DEF BeginPatchCrew
<1> QED
  BY <1>1, <1>2, <1>3, SaveEventIsSerial, DiscardIsSerial, BeginAssignIsSerial,
     InsertAssignmentIsSerial, SaveAssignmentIsSerial, ReadCrewIsSerial, WriteCrewIsSerial,
     DeleteAssignmentIsSerial DEF EditSteps

LEMMA DecisionsAreSerial ==
  ASSUME IInv, Serial, NEW r \in Requests, ChainSteps(r), ~ overlapped'
  PROVE  Serial'
<1>1. ASSUME NEW v \in Events,
             BeginSubmit(r, v) \/ BeginCollect(r, v) \/ BeginApprove(r, v) \/ BeginReject(r, v)
      PROVE  Serial'
  <2>1. /\ {"submit.check", "collect", "approve", "reject"}
              \subseteq Steps \ (AssignmentSteps \cup {"submit"})
        /\ {"collect", "approve", "reject"} \cap DraftSteps = {}
    BY DEF Steps, AssignmentSteps, DraftSteps
  <2>2. /\ {"DRAFT"} \in SUBSET Status /\ {"SUBMITTED"} \in SUBSET Status
        /\ {"COLLECTED"} \in SUBSET Status /\ {"SUBMITTED", "COLLECTED"} \in SUBSET Status
    BY DEF Status, Decisions
  <2> QED
    BY <1>1, <2>1, <2>2, BeginIsSerial DEF BeginSubmit, BeginCollect, BeginApprove, BeginReject
<1> QED
  BY <1>1, CheckStaffedIsSerial, DecideIsSerial DEF ChainSteps

LEMMA OverlapStays ==
  ASSUME [Next]_vars, ~ overlapped'
  PROVE  ~ overlapped
<1>1. ASSUME NEW r \in Requests, EditSteps(r)
      PROVE  ~ overlapped
  BY <1>1 DEF EditSteps, BeginPatchEvent, BeginDiscard, Begin, SaveEvent, Discard, BeginAssign,
     InsertAssignment, BeginPatchCrew, BeginPatchNote, BeginDeleteAssignment, BeginAssignmentEdit,
     SaveAssignment, ReadCrew, WriteCrew, DeleteAssignment
<1>2. ASSUME NEW r \in Requests, ChainSteps(r)
      PROVE  ~ overlapped
  BY <1>2 DEF ChainSteps, BeginSubmit, BeginCollect, BeginApprove, BeginReject, Begin, CheckStaffed,
     SaveSubmit, SaveCollect, SaveApprove, SaveReject, Decide
<1> QED
  BY <1>1, <1>2 DEF Next, CreateEvent, Abort, vars

LEMMA SInvPreserved == SInv /\ [Next]_vars => SInv'
<1> SUFFICES ASSUME SInv, [Next]_vars, ~ overlapped'
             PROVE  Serial'
  BY IInvPreserved DEF SInv
<1>1. IInv /\ Serial
  BY OverlapStays DEF SInv
<1>2. ASSUME NEW r \in Requests, Abort(r)
      PROVE  Serial'
  <2>1. req'[r] = Idle /\ AllOrderly'
    BY <1>1, <1>2 DEF Abort, Becomes, IInv, TypeOK, Serial, AllOrderly, Orderly, Live, Staffed, roster
  <2> QED
    BY <1>1, <1>2, <2>1, IdleIsCurrent, OneAtATime DEF Abort, IInv
<1>3. CASE UNCHANGED vars
  BY <1>1, <1>3 DEF vars, roster, Serial, AllOrderly, Orderly, Live, Staffed, Current, At
<1> QED
  BY <1>1, <1>2, <1>3, CreateIsSerial, EditsAreSerial, DecisionsAreSerial DEF Next

LEMMA SInvHolds == Spec => []SInv
<1>1. Init => SInv
  BY IInvInitially, SerialInitially DEF SInv
<1> QED
  BY <1>1, SInvPreserved, PTL DEF Spec

\* A line is printed for every employee, and for every assignment that has one.
LEMMA StaffedIsPrinted ==
  ASSUME TypeOK, NEW v \in Events, Staffed(v)
  PROVE  Lines(Rows(v), crew) \notin {{}, {Unassigned}}
<1>1. PICK a \in AssignIds : home[a] = v /\ crew[a] # {}
  BY DEF Staffed
<1>2. PICK e : e \in crew[a]
  BY <1>1
<1>3. <<a, e>> \in Lines(Rows(v), crew)
  BY <1>1, <1>2 DEF Lines, Rows
<1>4. ASSUME Lines(Rows(v), crew) = {Unassigned}
      PROVE  FALSE
  <2>1. <<a, e>> = Unassigned
    BY <1>3, <1>4
  <2> QED
    BY <2>1, PaperAssumption DEF Unassigned
<1> QED
  BY <1>3, <1>4

\* While no two requests have overlapped, an event under review is printed with an employee and the
\* name of its approver exactly when it is approved (submit_event's check, approve_event).
THEOREM PrintedAsDecidedHolds == Spec => []PrintedAsDecided
<1>1. ASSUME TypeOK, Serial, NEW v \in Events, Live(v)
      PROVE  /\ signed[v] = taken[v]
             /\ Paper(v).approver # Blank <=> status[v] = "APPROVED"
             /\ status[v] \in UnderReview =>
                  Paper(v).maker = "SUBMITTED" /\ Paper(v).tables \notin {{}, {Unassigned}}
  <2>1. Orderly(v)
    BY <1>1 DEF Serial, AllOrderly
  <2>2. Paper(v).approver # Blank <=> "APPROVED" \in signed[v]
    BY DEF Paper, Document, Blank
  <2>3. "SUBMITTED" \in signed[v] => Paper(v).maker = "SUBMITTED"
    BY DEF Paper, Document
  <2>4. Staffed(v) => Paper(v).tables \notin {{}, {Unassigned}}
    BY <1>1, StaffedIsPrinted DEF Paper, Document
  <2> QED
    BY <2>1, <2>2, <2>3, <2>4 DEF Orderly, UnderReview, Decisions
<1>2. SInv => PrintedAsDecided
  BY <1>1 DEF SInv, IInv, PrintedAsDecided
<1> QED
  BY <1>2, SInvHolds, PTL

\* What is printed depends on the assignments printed alone.
LEMMA SameLines ==
  ASSUME NEW A, NEW old, NEW new, \A a \in A : old[a] = new[a]
  PROVE  Lines(A, old) = Lines(A, new)
<1>1. \A a \in A : {a} \X old[a] = {a} \X new[a]
  OBVIOUS
<1>2. {{a} \X old[a] : a \in A} = {{a} \X new[a] : a \in A}
  BY <1>1
<1> QED
  BY <1>2 DEF Lines

\* What a step leaves alone of an event that was submitted, and what it adds to it.
Settled(v) ==
  /\ edition'[v] = edition[v]
  /\ \A a \in AssignIds : home[a] = v \/ home'[a] = v => home'[a] = home[a] /\ crew'[a] = crew[a]
  /\ signed[v] \subseteq signed'[v]

LEMMA SubmittedIsSettled ==
  ASSUME IInv, Serial, [Next]_vars, NEW v \in Events, status[v] \in Decisions
  PROVE  Settled(v)
<1>1. ASSUME UNCHANGED <<edition, home, crew>>, signed[v] \subseteq signed'[v]
      PROVE  Settled(v)
  BY <1>1 DEF Settled
<1>2. ASSUME NEW w \in Events, CreateEvent(w)
      PROVE  Settled(v)
  BY <1>1, <1>2 DEF CreateEvent, roster
<1>3. ASSUME NEW r \in Requests, NEW step \in Steps \ {"idle"}, NEW x \in Decisions, Decide(r, step, x)
      PROVE  Settled(v)
  BY <1>1, <1>3 DEF Decide, roster, IInv, TypeOK
<1>4. ASSUME NEW r \in Requests,
             SaveEvent(r) \/ Discard(r) \/ InsertAssignment(r) \/ SaveAssignment(r) \/ WriteCrew(r)
               \/ DeleteAssignment(r)
      PROVE  Settled(v)
  <2>1. Current(req[r]) /\ req[r].pc \in DraftSteps
    BY <1>4 DEF Serial, SaveEvent, Discard, InsertAssignment, SaveAssignment, WriteCrew,
       DeleteAssignment, At, DraftSteps, AssignmentSteps
  <2>2. req[r].event # v
    BY <2>1 DEF Current, Decisions
  <2>3. CASE SaveEvent(r)
    BY <2>2, <2>3 DEF SaveEvent, Settled, roster, IInv, TypeOK
  <2>4. CASE Discard(r)
    BY <2>2, <2>4 DEF Discard, Settled, IInv, TypeOK
  <2>5. CASE InsertAssignment(r)
    <3>1. \A a \in unused : a \in AssignIds /\ home[a] = None /\ v # None
      BY DEF IInv, TypeOK, NothingYet
    <3> QED
      BY <2>2, <2>5, <3>1 DEF InsertAssignment, Settled, IInv, TypeOK
  <2>6. ASSUME SaveAssignment(r) \/ WriteCrew(r) \/ DeleteAssignment(r)
        PROVE  Settled(v)
    <3>1. home[req[r].asg] = req[r].event /\ req[r].asg \in AssignIds /\ req[r].event \in Events
      BY <2>1, <2>6, InHand DEF Current, SaveAssignment, WriteCrew, DeleteAssignment, At, AssignmentSteps
    <3>2. /\ UNCHANGED <<edition, signed>>
          /\ \A a \in AssignIds : a # req[r].asg => home'[a] = home[a] /\ crew'[a] = crew[a]
          /\ home'[req[r].asg] \in {req[r].event, None}
      BY <2>6, <3>1 DEF SaveAssignment, WriteCrew, DeleteAssignment, IInv, TypeOK
    <3> QED
      BY <2>2, <3>1, <3>2 DEF Settled
  <2> QED
    BY <1>4, <2>3, <2>4, <2>5, <2>6
<1>5. ASSUME NEW r \in Requests, EditSteps(r)
      PROVE  Settled(v)
  BY <1>1, <1>4, <1>5 DEF EditSteps, BeginPatchEvent, BeginDiscard, Begin, BeginAssign,
     BeginPatchCrew, BeginPatchNote, BeginDeleteAssignment, BeginAssignmentEdit, ReadCrew, roster
<1>6. ASSUME NEW r \in Requests, SaveSubmit(r) \/ SaveCollect(r) \/ SaveApprove(r) \/ SaveReject(r)
      PROVE  Settled(v)
  <2>1. /\ {"submit", "collect", "approve", "reject"} \subseteq Steps \ {"idle"}
        /\ {"SUBMITTED", "COLLECTED", "APPROVED", "REJECTED"} \subseteq Decisions
    BY DEF Steps, Decisions
  <2> QED
    BY <1>3, <1>6, <2>1 DEF SaveSubmit, SaveCollect, SaveApprove, SaveReject
<1>7. ASSUME NEW r \in Requests, ChainSteps(r)
      PROVE  Settled(v)
  BY <1>1, <1>6, <1>7 DEF ChainSteps, BeginSubmit, BeginCollect, BeginApprove, BeginReject, Begin,
     CheckStaffed, roster
<1>8. CASE UNCHANGED vars \/ \E r \in Requests : Abort(r)
  BY <1>1, <1>8 DEF vars, Abort, roster
<1> QED
  BY <1>2, <1>5, <1>7, <1>8 DEF Next

\* While no two requests have overlapped, what is printed of an event once it was submitted changes in
\* nothing but the approver, and not at all once there is one (the DRAFT checks of the views).
THEOREM PaperFinalHolds == Spec => PaperFinal
<1> DEFINE Final ==
      \A v \in Events : ~ overlapped' /\ status[v] \in Decisions =>
        /\ edition'[v] = edition[v]
        /\ \A a \in Rows(v) \cup Rows(v)' : home'[a] = home[a] /\ crew'[a] = crew[a]
        /\ Paper(v)' = [Paper(v) EXCEPT !.approver = Paper(v)'.approver]
        /\ Paper(v).approver # Blank => Paper(v)' = Paper(v)
<1>1. ASSUME SInv, [Next]_vars, NEW v \in Events, ~ overlapped', status[v] \in Decisions
      PROVE  /\ edition'[v] = edition[v]
             /\ \A a \in Rows(v) \cup Rows(v)' : home'[a] = home[a] /\ crew'[a] = crew[a]
             /\ Paper(v)' = [Paper(v) EXCEPT !.approver = Paper(v)'.approver]
             /\ Paper(v).approver # Blank => Paper(v)' = Paper(v)
  <2>1. IInv /\ Serial
    BY <1>1, OverlapStays DEF SInv
  <2>2. Settled(v)
    BY <1>1, <2>1, SubmittedIsSettled
  <2>3. Rows(v)' = Rows(v) /\ \A a \in Rows(v) : crew'[a] = crew[a]
    BY <2>2 DEF Rows, Settled
  <2>4. Lines(Rows(v), crew)' = Lines(Rows(v), crew)
    <3>1. Lines(Rows(v), crew)' = Lines(Rows(v)', crew')
      BY DEF Lines
    <3> QED
      BY <2>3, <3>1, SameLines
  <2>5. Orderly(v)
    BY <1>1, <2>1 DEF Serial, AllOrderly, Live, Status
  <2>6. "SUBMITTED" \in signed[v] /\ signed[v] \subseteq signed'[v]
    BY <1>1, <2>2, <2>5 DEF Orderly, Settled
  <2>7. /\ Paper(v) = [approver |-> IF "APPROVED" \in signed[v] THEN "APPROVED" ELSE Blank,
                       maker |-> "SUBMITTED", tables |-> Lines(Rows(v), crew)]
        /\ Paper(v)' = [approver |-> IF "APPROVED" \in signed'[v] THEN "APPROVED" ELSE Blank,
                        maker |-> "SUBMITTED", tables |-> Lines(Rows(v), crew)]
    BY <2>4, <2>6 DEF Paper, Document
  <2>8. /\ edition'[v] = edition[v]
        /\ \A a \in Rows(v) \cup Rows(v)' : home'[a] = home[a] /\ crew'[a] = crew[a]
    BY <2>2, <2>3 DEF Settled, Rows
  <2>9. Paper(v)' = [Paper(v) EXCEPT !.approver = Paper(v)'.approver]
    BY <2>7
  <2>10. Paper(v).approver # Blank => Paper(v)' = Paper(v)
    BY <2>6, <2>7
  <2> QED
    BY <2>8, <2>9, <2>10
<1>2. SInv /\ [Next]_vars => [Final]_vars
  BY <1>1
<1> QED
  BY <1>2, SInvHolds, PTL DEF Spec, PaperFinal
=============================================================================
