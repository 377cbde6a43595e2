---------------------------- MODULE DutyDayProofs ----------------------------
(***************************************************************************)
(* Theorems about DutyDay and its document, for every set of threads, keys *)
(* and employees and every number of stages.                               *)
(***************************************************************************)
EXTENDS DutyPaper, WellFoundedInduction, TLAPS

USE DutyDayAssumption

\* The first of a non-empty set of stages is one of them: the loops of the code, which
\* run in stage order, always have a next stage.
LEMMA FirstInSet ==
  ASSUME NEW S \in SUBSET Stages, S # {}
  PROVE  First(S) \in S /\ First(S) \in Stages
<1>1. S \subseteq Nat
  BY DEF Stages
<1>2. PICK x \in S : \A y \in S : ~ (<<y, x>> \in OpToRel(<, Nat))
  BY <1>1, WFMin, NatLessThanWellFounded, Zenon
<1>3. \A y \in S : x <= y
  <2> SUFFICES ASSUME NEW y \in S PROVE x <= y
    OBVIOUS
  <2>1. x \in Nat /\ y \in Nat
    BY <1>1
  <2>2. ~ (y < x)
    BY <1>2, <2>1, Zenon DEF OpToRel
  <2> QED
    BY <2>1, <2>2
<1> QED
  BY <1>3 DEF First

-----------------------------------------------------------------------------
(* Every step replaces the memory of one thread and withdraws no signature.          *)

LEMMA OneMemoryChanges ==
  ASSUME TypeOK, InFlight, NEW r \in Requests, NEW m \in Request,
         Becomes(r, m), MemoryOK(m, signed'),
         \A d \in DayIds : signed[d] \subseteq signed'[d]
  PROVE  req' \in [Requests -> Request] /\ InFlight'
<1>1. req' \in [Requests -> Request]
  BY DEF TypeOK, Becomes
<1>2. ASSUME NEW q \in Requests
      PROVE  MemoryOK(req'[q], signed')
  <2>1. CASE q = r
    BY <2>1 DEF TypeOK, Becomes
  <2>2. CASE q # r
    <3>1. req'[q] = req[q] /\ req[q] \in Request
      BY <2>2 DEF TypeOK, Becomes
    <3>2. MemoryOK(req[q], signed)
      BY DEF InFlight
    <3> QED
      BY <3>1, <3>2 DEF MemoryOK, Request
  <2> QED
    BY <2>1, <2>2
<1> QED
  BY <1>1, <1>2 DEF InFlight

LEMMA IdleIsSound == Idle \in Request /\ \A sg : MemoryOK(Idle, sg)
  BY DEF Idle, Request, Steps, MemoryOK

LEMMA CreateStepsSound ==
  ASSUME TypeOK, InFlight, NEW r \in Requests, CreateSteps(r)
  PROVE  TypeOK' /\ InFlight'
<1>1. CASE BeginCreate(r)
  <2>1. [Idle EXCEPT !.pc = "create.insert"] \in Request
        /\ MemoryOK([Idle EXCEPT !.pc = "create.insert"], signed')
    BY DEF Idle, Request, Steps, MemoryOK
  <2> QED
    BY <1>1, <2>1, OneMemoryChanges DEF BeginCreate, TypeOK, roster
<1>2. CASE InsertDay(r)
  <2>1. CASE Becomes(r, Idle) /\ UNCHANGED status
    BY <1>2, <2>1, IdleIsSound, OneMemoryChanges DEF InsertDay, TypeOK, roster
  <2>2. ASSUME NEW d \in DayIds,
               status' = [status EXCEPT ![d] = "DRAFT"],
               Becomes(r, [Idle EXCEPT !.pc = "create.sections", !.day = d, !.todo = Stages])
        PROVE  TypeOK' /\ InFlight'
    <3> DEFINE m == [Idle EXCEPT !.pc = "create.sections", !.day = d, !.todo = Stages]
    <3>1. m \in Request /\ MemoryOK(m, signed')
      BY DEF Idle, Request, Steps, MemoryOK
    <3> QED
      BY <1>2, <2>2, <3>1, OneMemoryChanges DEF InsertDay, TypeOK, roster, Status
  <2> QED
    BY <1>2, <2>1, <2>2 DEF InsertDay
<1>3. CASE InsertSection(r)
  <2> DEFINE d == req[r].day
             s == First(req[r].todo)
             m == [req[r] EXCEPT !.todo = @ \ {s}]
  <2>1. req[r] \in Request /\ d \in DayIds /\ s \in Stages
    BY <1>3, FirstInSet DEF InsertSection, At, TypeOK, Request, InFlight, MemoryOK
  <2>2. m \in Request /\ MemoryOK(m, signed')
    BY <1>3, <2>1 DEF InsertSection, At, Request, MemoryOK
  <2>3. CASE Live(d)
    BY <1>3, <2>1, <2>2, <2>3, OneMemoryChanges DEF InsertSection, TypeOK, roster
  <2>4. CASE ~ Live(d)
    BY <1>3, <2>4, IdleIsSound, OneMemoryChanges DEF InsertSection, TypeOK, roster
  <2> QED
    BY <2>3, <2>4
<1>4. CASE FinishCreate(r)
  BY <1>4, IdleIsSound, OneMemoryChanges DEF FinishCreate, TypeOK, roster
<1> QED
  BY <1>1, <1>2, <1>3, <1>4 DEF CreateSteps

\* Loading a day with the status a decision asks for.
LEMMA BeginSound ==
  ASSUME TypeOK, InFlight, NEW r \in Requests, NEW d \in DayIds, NEW step \in Steps, NEW from,
         Begin(r, step, d, from), MemoryOK([Idle EXCEPT !.pc = step, !.day = d], signed)
  PROVE  TypeOK' /\ InFlight'
<1> DEFINE m == [Idle EXCEPT !.pc = step, !.day = d]
<1>1. m \in Request
  BY DEF Idle, Request
<1> QED
  BY <1>1, OneMemoryChanges DEF Begin, TypeOK, roster

LEMMA RosterStepsSound ==
  ASSUME TypeOK, InFlight, NEW r \in Requests, RosterSteps(r)
  PROVE  TypeOK' /\ InFlight'
<1>1. ASSUME NEW d \in DayIds, BeginDiscard(r, d)
      PROVE  TypeOK' /\ InFlight'
  <2>1. MemoryOK([Idle EXCEPT !.pc = "discard", !.day = d], signed)
    BY DEF MemoryOK, Idle
  <2>2. "discard" \in Steps
    BY DEF Steps
  <2> QED
    BY <1>1, <2>1, <2>2, BeginSound DEF BeginDiscard
<1>2. CASE Discard(r)
  <2>1. req[r].day \in DayIds
    BY <1>2 DEF Discard, At, InFlight, MemoryOK
  <2>2. home' \in [AssignIds -> Sections \cup Nowhere] /\ crew' \in [AssignIds -> SUBSET Employees]
    BY <1>2 DEF Discard, TypeOK, Nowhere, Absent
  <2> QED
    BY <1>2, <2>1, <2>2, IdleIsSound, OneMemoryChanges DEF Discard, TypeOK, Absent
<1>3. ASSUME NEW d \in DayIds, NEW s \in Stages, BeginRetime(r, d, s)
      PROVE  TypeOK' /\ InFlight'
  <2> DEFINE m == [Idle EXCEPT !.pc = "retime", !.day = d, !.stage = s]
  <2>1. m \in Request /\ MemoryOK(m, signed')
    BY DEF Idle, Request, Steps, MemoryOK
  <2> QED
    BY <1>3, <2>1, OneMemoryChanges DEF BeginRetime, BeginSectionEdit, TypeOK, roster
<1>4. CASE Retime(r)
  <2>1. req[r].day \in DayIds /\ req[r].stage \in Stages
    BY <1>4 DEF Retime, At, InFlight, MemoryOK
  <2> QED
    BY <1>4, <2>1, IdleIsSound, OneMemoryChanges DEF Retime, TypeOK, roster
<1>5. ASSUME NEW d \in DayIds, NEW s \in Stages, NEW W \in SUBSET Employees, BeginAssign(r, d, s, W)
      PROVE  TypeOK' /\ InFlight'
  <2> DEFINE m == [Idle EXCEPT !.pc = "assign.insert", !.day = d, !.stage = s, !.want = W]
  <2>1. m \in Request /\ MemoryOK(m, signed')
    BY DEF Idle, Request, Steps, MemoryOK
  <2> QED
    BY <1>5, <2>1, OneMemoryChanges DEF BeginAssign, TypeOK, roster
<1>6. CASE InsertAssignment(r)
  <2>1. req[r] \in Request /\ req[r].day \in DayIds /\ req[r].stage \in Stages
    BY <1>6 DEF InsertAssignment, At, TypeOK, InFlight, MemoryOK
  <2>2. ASSUME NEW a \in AssignIds, home' = [home EXCEPT ![a] = <<req[r].day, req[r].stage>>],
               Becomes(r, [req[r] EXCEPT !.pc = "crew.read", !.asg = a])
        PROVE  TypeOK' /\ InFlight'
    <3> DEFINE m == [req[r] EXCEPT !.pc = "crew.read", !.asg = a]
    <3>1. m \in Request /\ MemoryOK(m, signed')
      BY <2>1 DEF Request, Steps, MemoryOK
    <3> QED
      BY <1>6, <2>1, <2>2, <3>1, OneMemoryChanges DEF InsertAssignment, TypeOK, Sections
  <2>3. CASE Becomes(r, Idle) /\ UNCHANGED home
    BY <1>6, <2>3, IdleIsSound, OneMemoryChanges DEF InsertAssignment, TypeOK
  <2> QED
    BY <1>6, <2>2, <2>3 DEF InsertAssignment
<1>7. ASSUME NEW a \in AssignIds, NEW W \in SUBSET Employees,
             NEW step \in {"patch.crew", "patch.note", "assign.delete"},
             BeginAssignmentEdit(r, step, a, W)
      PROVE  TypeOK' /\ InFlight'
  <2> PICK d \in DayIds, s \in Stages :
        Becomes(r, [Idle EXCEPT !.pc = step, !.day = d, !.stage = s, !.asg = a, !.want = W])
    BY <1>7 DEF BeginAssignmentEdit
  <2> DEFINE m == [Idle EXCEPT !.pc = step, !.day = d, !.stage = s, !.asg = a, !.want = W]
  <2>1. m \in Request /\ MemoryOK(m, signed')
    BY DEF Idle, Request, Steps, MemoryOK
  <2> QED
    BY <1>7, <2>1, OneMemoryChanges DEF BeginAssignmentEdit, TypeOK, roster
<1>8. CASE SaveAssignment(r)
  <2>1. req[r] \in Request /\ req[r].day \in DayIds /\ req[r].stage \in Stages
          /\ req[r].asg \in AssignIds
    BY <1>8 DEF SaveAssignment, TypeOK, InFlight, MemoryOK
  <2> DEFINE m == [req[r] EXCEPT !.pc = "crew.read"]
  <2>2. m \in Request /\ MemoryOK(m, signed')
    BY <2>1 DEF Request, Steps, MemoryOK
  <2>3. Becomes(r, m) \/ Becomes(r, Idle)
    BY <1>8 DEF SaveAssignment
  <2>4. <<req[r].day, req[r].stage>> \in Sections
    BY <2>1 DEF Sections
  <2>5. \/ home' = [home EXCEPT ![req[r].asg] = <<req[r].day, req[r].stage>>]
        \/ home' = home
    BY <1>8 DEF SaveAssignment
  <2>6. home' \in [AssignIds -> Sections \cup Nowhere]
    BY <2>1, <2>4, <2>5 DEF TypeOK
  <2> QED
    BY <1>8, <2>2, <2>3, <2>6, IdleIsSound, OneMemoryChanges DEF SaveAssignment, TypeOK
<1>9. CASE ReadCrew(r)
  <2> DEFINE m == [req[r] EXCEPT !.pc = "crew.write", !.old = crew[req[r].asg]]
  <2>1. req[r] \in Request /\ req[r].day \in DayIds /\ req[r].asg \in AssignIds
    BY <1>9 DEF ReadCrew, At, TypeOK, InFlight, MemoryOK
  <2>2. m \in Request /\ MemoryOK(m, signed')
    BY <2>1 DEF Request, Steps, MemoryOK, TypeOK
  <2> QED
    BY <1>9, <2>2, OneMemoryChanges DEF ReadCrew, TypeOK, roster
<1>10. CASE WriteCrew(r)
  <2>1. req[r] \in Request /\ req[r].asg \in AssignIds
    BY <1>10 DEF WriteCrew, At, TypeOK, InFlight, MemoryOK
  <2>2. crew' \in [AssignIds -> SUBSET Employees]
    BY <1>10, <2>1 DEF WriteCrew, TypeOK, Request
  <2> QED
    BY <1>10, <2>2, IdleIsSound, OneMemoryChanges DEF WriteCrew, TypeOK
<1>11. CASE DeleteAssignment(r)
  <2>1. req[r].asg \in AssignIds
    BY <1>11 DEF DeleteAssignment, At, InFlight, MemoryOK
  <2> QED
    BY <1>11, <2>1, IdleIsSound, OneMemoryChanges DEF DeleteAssignment, TypeOK, Nowhere, Absent
<1> QED
  BY <1>1, <1>2, <1>3, <1>4, <1>5, <1>6, <1>7, <1>8, <1>9, <1>10, <1>11
  DEF RosterSteps, BeginPatchCrew, BeginPatchNote, BeginDeleteAssignment

LEMMA ChainStepsSound ==
  ASSUME TypeOK, InFlight, SignatureChain, NEW r \in Requests, ChainSteps(r)
  PROVE  TypeOK' /\ InFlight'
<1>1. ASSUME NEW d \in DayIds,
             BeginSubmit(r, d) \/ BeginCollect(r, d) \/ BeginApprove(r, d) \/ BeginReject(r, d)
      PROVE  TypeOK' /\ InFlight'
  <2>1. \E step \in {"submit.list", "collect", "approve", "reject"}, from \in SUBSET Status :
          /\ Begin(r, step, d, from)
          /\ MemoryOK([Idle EXCEPT !.pc = step, !.day = d], signed)
    <3>1. CASE BeginSubmit(r, d)
      BY <3>1 DEF BeginSubmit, MemoryOK, Idle, Status
    <3>2. CASE BeginCollect(r, d)
      BY <3>2 DEF BeginCollect, Begin, MemoryOK, Idle, SignatureChain, Status
    <3>3. CASE BeginApprove(r, d)
      BY <3>3 DEF BeginApprove, Begin, MemoryOK, Idle, SignatureChain, Status
    <3>4. CASE BeginReject(r, d)
      BY <3>4 DEF BeginReject, Begin, MemoryOK, Idle, SignatureChain, Status
    <3> QED
      BY <1>1, <3>1, <3>2, <3>3, <3>4
  <2> QED
    BY <2>1, BeginSound DEF Steps
<1>2. ASSUME NEW to \in Status \ {"DRAFT"}, NEW signature \in Signatures, NEW next \in Request,
             req[r].day \in DayIds,
             MemoryOK(next, [signed EXCEPT ![req[r].day] = @ \cup {signature}]),
             Save(r, to, signature, next), UNCHANGED <<sections, retimed, roster, listeners>>
      PROVE  TypeOK' /\ InFlight'
  <2>1. CASE Live(req[r].day)
    <3>1. /\ status' = [status EXCEPT ![req[r].day] = to]
          /\ signed' = [signed EXCEPT ![req[r].day] = @ \cup {signature}]
          /\ Becomes(r, next)
      BY <1>2, <2>1 DEF Save
    <3>2. /\ status' \in [DayIds -> Status \cup Absent]
          /\ signed' \in [DayIds -> SUBSET Signatures]
          /\ \A d \in DayIds : signed[d] \subseteq signed'[d]
      BY <1>2, <3>1 DEF TypeOK
    <3>3. MemoryOK(next, signed')
      BY <1>2, <3>1
    <3>4. req' \in [Requests -> Request] /\ InFlight'
      BY <3>1, <3>2, <3>3, OneMemoryChanges
    <3> QED
      BY <1>2, <3>2, <3>4 DEF TypeOK, roster
  <2>2. CASE ~ Live(req[r].day)
    BY <1>2, <2>2, IdleIsSound, OneMemoryChanges DEF Save, TypeOK, roster
  <2> QED
    BY <2>1, <2>2
<1>3. req[r] \in Request /\ MemoryOK(req[r], signed)
  BY DEF TypeOK, InFlight
<1>4. CASE ListSubmitted(r)
  <2> DEFINE m == [req[r] EXCEPT !.pc = "submit.check", !.todo = sections[req[r].day]]
  <2>1. m \in Request /\ MemoryOK(m, signed')
    BY <1>3, <1>4 DEF ListSubmitted, At, Request, Steps, MemoryOK, TypeOK
  <2> QED
    BY <1>4, <2>1, OneMemoryChanges DEF ListSubmitted, TypeOK, roster
<1>5. CASE CheckSection(r)
  <2> DEFINE m == [req[r] EXCEPT !.todo = @ \ {First(req[r].todo)}]
  <2>1. m \in Request /\ MemoryOK(m, signed')
    BY <1>3, <1>5 DEF CheckSection, At, Request, MemoryOK
  <2>2. Becomes(r, m) \/ Becomes(r, Idle)
    BY <1>5 DEF CheckSection
  <2> QED
    BY <1>5, <2>1, <2>2, IdleIsSound, OneMemoryChanges DEF CheckSection, TypeOK, roster
<1>6. CASE SaveSubmit(r)
  <2>1. req[r].day \in DayIds
    BY <1>3, <1>6 DEF SaveSubmit, At, MemoryOK
  <2> QED
    BY <1>2, <1>6, <2>1, IdleIsSound DEF SaveSubmit, Status, Signatures
<1>7. CASE SaveCollect(r)
  <2>1. req[r].day \in DayIds
    BY <1>3, <1>7 DEF SaveCollect, At, MemoryOK
  <2> QED
    BY <1>2, <1>7, <2>1, IdleIsSound DEF SaveCollect, Status, Signatures
<1>8. CASE SaveApprove(r)
  <2> DEFINE m == [req[r] EXCEPT !.pc = "approve.list"]
  <2>1. req[r].day \in DayIds
    BY <1>3, <1>8 DEF SaveApprove, At, MemoryOK
  <2>2. m \in Request /\ MemoryOK(m, [signed EXCEPT ![req[r].day] = @ \cup {"approved"}])
    BY <1>3, <2>1 DEF Request, Steps, MemoryOK, TypeOK
  <2> QED
    BY <1>2, <1>8, <2>1, <2>2 DEF SaveApprove, Status, Signatures
<1>9. CASE ListApproved(r)
  <2> DEFINE m == [req[r] EXCEPT !.pc = "dispatch", !.todo = sections[req[r].day]]
  <2>1. m \in Request /\ MemoryOK(m, signed')
    BY <1>3, <1>9 DEF ListApproved, At, Request, Steps, MemoryOK, TypeOK
  <2> QED
    BY <1>9, <2>1, OneMemoryChanges DEF ListApproved, TypeOK, roster
<1>10. CASE Dispatch(r)
  <2> DEFINE d == req[r].day
             s == First(req[r].todo)
             m == [req[r] EXCEPT !.todo = @ \ {s}]
  <2>1. d \in DayIds /\ s \in Stages
    BY <1>3, <1>10, FirstInSet DEF Dispatch, At, Request, MemoryOK
  <2>2. m \in Request /\ MemoryOK(m, signed')
    BY <1>3, <1>10 DEF Dispatch, At, Request, MemoryOK
  <2>3. listeners' \in [DayIds -> [Stages -> 0 .. ListenerCap]]
    BY <1>10, <2>1 DEF Dispatch, TypeOK
  <2> QED
    BY <1>10, <2>2, <2>3, OneMemoryChanges DEF Dispatch, TypeOK, roster
<1>11. CASE FinishApprove(r)
  BY <1>11, IdleIsSound, OneMemoryChanges DEF FinishApprove, TypeOK, roster
<1>12. CASE SaveReject(r)
  <2>1. req[r].day \in DayIds
    BY <1>3, <1>12 DEF SaveReject, At, MemoryOK
  <2> QED
    BY <1>2, <1>12, <2>1, IdleIsSound DEF SaveReject, Status, Signatures
<1> QED
  BY <1>1, <1>4, <1>5, <1>6, <1>7, <1>8, <1>9, <1>10, <1>11, <1>12 DEF ChainSteps

-----------------------------------------------------------------------------
(* What a step may do to a day.  Every theorem about statuses and signatures is drawn *)
(* from this lemma.                                                                    *)

Opened(d) ==
  /\ status[d] = "unborn" /\ \A e \in DayIds : ~ Live(e)
  /\ status' = [status EXCEPT ![d] = "DRAFT"] /\ UNCHANGED signed

Deleted(d) == status' = [status EXCEPT ![d] = "deleted"] /\ UNCHANGED signed

Decided(d, to, signature, basis) ==
  /\ Live(d) /\ basis \subseteq signed[d]
  /\ status' = [status EXCEPT ![d] = to]
  /\ signed' = [signed EXCEPT ![d] = @ \cup {signature}]

DayEffect ==
  \/ UNCHANGED <<status, signed>>
  \/ \E d \in DayIds :
       \/ Opened(d) \/ Deleted(d)
       \/ Decided(d, "SUBMITTED", "submitted", {})
       \/ Decided(d, "COLLECTED", "collected", {"submitted"})
       \/ Decided(d, "APPROVED", "approved", {"collected"})
       \/ Decided(d, "REJECTED", "rejected", {"submitted"})

LEMMA EveryStepHasDayEffect ==
  ASSUME TypeOK, InFlight, [Next]_vars
  PROVE  DayEffect
<1>1. CASE UNCHANGED vars
  BY <1>1 DEF DayEffect, vars
<1>2. ASSUME NEW r \in Requests, CreateSteps(r) \/ RosterSteps(r) \/ ChainSteps(r) \/ Abort(r)
      PROVE  DayEffect
  <2>1. req[r] \in Request /\ MemoryOK(req[r], signed)
    BY DEF TypeOK, InFlight
  <2>2. CASE CreateSteps(r)
    BY <2>2 DEF CreateSteps, BeginCreate, InsertDay, InsertSection, FinishCreate, DayEffect, Opened
  <2>3. CASE RosterSteps(r)
    <3>1. CASE Discard(r)
      BY <2>1, <3>1 DEF Discard, At, MemoryOK, DayEffect, Deleted
    <3>2. CASE ~ Discard(r)
      <4>1. UNCHANGED <<status, signed>>
        BY <2>3, <3>2 DEF RosterSteps, BeginDiscard, Begin, BeginRetime, BeginSectionEdit, Retime,
           BeginAssign, InsertAssignment, BeginPatchCrew, BeginPatchNote, BeginDeleteAssignment,
           BeginAssignmentEdit, SaveAssignment, ReadCrew, WriteCrew, DeleteAssignment
      <4> QED
        BY <4>1 DEF DayEffect
    <3> QED
      BY <3>1, <3>2
  <2>4. CASE ChainSteps(r)
    <3>1. CASE SaveSubmit(r)
      BY <2>1, <3>1 DEF SaveSubmit, Save, At, MemoryOK, DayEffect, Decided
    <3>2. CASE SaveCollect(r)
      BY <2>1, <3>2 DEF SaveCollect, Save, At, MemoryOK, DayEffect, Decided
    <3>3. CASE SaveApprove(r)
      BY <2>1, <3>3 DEF SaveApprove, Save, At, MemoryOK, DayEffect, Decided
    <3>4. CASE SaveReject(r)
      BY <2>1, <3>4 DEF SaveReject, Save, At, MemoryOK, DayEffect, Decided
    <3>5. CASE ~ (SaveSubmit(r) \/ SaveCollect(r) \/ SaveApprove(r) \/ SaveReject(r))
      <4>1. UNCHANGED <<status, signed>>
        BY <2>4, <3>5 DEF ChainSteps, BeginSubmit, BeginCollect, BeginApprove, BeginReject, Begin,
           ListSubmitted, CheckSection, ListApproved, Dispatch, FinishApprove
      <4> QED
        BY <4>1 DEF DayEffect
    <3> QED
      BY <3>1, <3>2, <3>3, <3>4, <3>5
  <2>5. CASE Abort(r)
    BY <2>5 DEF Abort, DayEffect
  <2> QED
    BY <1>2, <2>2, <2>3, <2>4, <2>5
<1> QED
  BY <1>1, <1>2 DEF Next

-----------------------------------------------------------------------------
(* The inductive invariant: types, what a decision in flight may rely on, and the     *)
(* chain of signatures.  The chain alone is not inductive: a collector's save happens *)
(* after the status it was decided on has changed, and it is the signature, which     *)
(* nobody withdraws, that survives.                                                    *)

IInv == TypeOK /\ InFlight /\ SignatureChain

LEMMA IInvInitially == Init => IInv
  BY IdleIsSound DEF Init, IInv, TypeOK, InFlight, SignatureChain, Nowhere, Absent

LEMMA IInvPreserved ==
  ASSUME IInv, [Next]_vars
  PROVE  IInv'
<1>1. TypeOK' /\ InFlight'
  <2>1. CASE UNCHANGED vars
    BY <2>1 DEF IInv, TypeOK, InFlight, vars, roster
  <2>2. ASSUME NEW r \in Requests, Abort(r)
        PROVE  TypeOK' /\ InFlight'
    BY <2>2, IdleIsSound, OneMemoryChanges DEF Abort, IInv, TypeOK, roster
  <2> QED
    BY <2>1, <2>2, CreateStepsSound, RosterStepsSound, ChainStepsSound DEF Next, IInv
<1>2. SignatureChain'
  <2>1. DayEffect /\ TypeOK /\ SignatureChain
    BY EveryStepHasDayEffect DEF IInv
  <2> SUFFICES ASSUME NEW d \in DayIds, ~ UNCHANGED <<status, signed>>,
                      \/ Opened(d) \/ Deleted(d)
                      \/ Decided(d, "SUBMITTED", "submitted", {})
                      \/ Decided(d, "COLLECTED", "collected", {"submitted"})
                      \/ Decided(d, "APPROVED", "approved", {"collected"})
                      \/ Decided(d, "REJECTED", "rejected", {"submitted"})
               PROVE  SignatureChain'
    BY <2>1 DEF DayEffect, SignatureChain
  <2>2. ASSUME NEW e \in DayIds, e # d
        PROVE  status'[e] = status[e] /\ signed'[e] = signed[e]
    BY <2>1, <2>2 DEF Opened, Deleted, Decided, TypeOK
  <2>3. CASE Opened(d)
    BY <2>1, <2>2, <2>3 DEF Opened, TypeOK, SignatureChain
  <2>4. CASE Deleted(d)
    BY <2>1, <2>2, <2>4 DEF Deleted, TypeOK, SignatureChain
  <2>5. CASE Decided(d, "SUBMITTED", "submitted", {})
    BY <2>1, <2>2, <2>5 DEF Decided, TypeOK, SignatureChain
  <2>6. CASE Decided(d, "COLLECTED", "collected", {"submitted"})
    BY <2>1, <2>2, <2>6 DEF Decided, TypeOK, SignatureChain
  <2>7. CASE Decided(d, "APPROVED", "approved", {"collected"})
    BY <2>1, <2>2, <2>7 DEF Decided, TypeOK, SignatureChain
  <2>8. CASE Decided(d, "REJECTED", "rejected", {"submitted"})
    BY <2>1, <2>2, <2>8 DEF Decided, TypeOK, SignatureChain
  <2> QED
    BY <2>3, <2>4, <2>5, <2>6, <2>7, <2>8
<1> QED
  BY <1>1, <1>2 DEF IInv

LEMMA IInvHolds == Spec => []IInv
<1>1. IInv /\ [Next]_vars => IInv'
  BY IInvPreserved
<1> QED
  BY <1>1, IInvInitially, PTL DEF Spec

\* The types are as declared, in every interleaving of requests and aborts.
THEOREM TypeCorrect == Spec => []TypeOK
<1>1. IInv => TypeOK
  BY DEF IInv
<1> QED
  BY <1>1, IInvHolds, PTL

\* However many requests overlap and however stale the rows they decide on: every
\* signature of a duty day rests on the one before it.
THEOREM SignatureChainHolds == Spec => []SignatureChain
<1>1. IInv => SignatureChain
  BY DEF IInv
<1> QED
  BY <1>1, IInvHolds, PTL

\* At most one duty day of an organisation and a date exists at a time.
THEOREM OneDayHolds == Spec => []OneDay
<1>1. Init => OneDay
  BY DEF Init, OneDay, Live, Status
<1>2. ASSUME IInv, OneDay, [Next]_vars
      PROVE  OneDay'
  <2>1. DayEffect /\ TypeOK
    BY <1>2, EveryStepHasDayEffect DEF IInv
  <2>2. ASSUME NEW d \in DayIds, Opened(d)
        PROVE  OneDay'
    BY <2>1, <2>2 DEF Opened, OneDay, Live, TypeOK
  <2>3. ASSUME NEW d \in DayIds, NEW to, NEW signature, NEW basis,
               Deleted(d) \/ Decided(d, to, signature, basis)
        PROVE  OneDay'
    BY <1>2, <2>1, <2>3 DEF Deleted, Decided, OneDay, Live, TypeOK, Status
  <2>4. CASE UNCHANGED <<status, signed>>
    BY <1>2, <2>4 DEF OneDay, Live
  <2> QED
    BY <2>1, <2>2, <2>3, <2>4 DEF DayEffect
<1>3. OneDay /\ IInv /\ [Next]_vars => OneDay'
  BY <1>2
<1> QED
  BY <1>1, <1>3, IInvHolds, PTL DEF Spec

\* No step turns a day that left DRAFT back into a draft, or brings a deleted day back.
THEOREM LeftDraftForGoodHolds == Spec => LeftDraftForGood
<1> DEFINE Forward ==
      \A d \in DayIds :
        /\ status[d] \notin {"unborn", "DRAFT"} => status'[d] \notin {"unborn", "DRAFT"}
        /\ status[d] = "deleted" => status'[d] = "deleted"
<1>1. ASSUME IInv, [Next]_vars
      PROVE  [Forward]_vars
  <2>1. DayEffect /\ TypeOK
    BY <1>1, EveryStepHasDayEffect DEF IInv
  <2>2. CASE UNCHANGED <<status, signed>>
    BY <2>2
  <2>3. ASSUME NEW d \in DayIds, Opened(d) \/ Deleted(d)
        PROVE  Forward
    BY <2>1, <2>3 DEF Opened, Deleted, TypeOK
  <2>4. ASSUME NEW d \in DayIds, NEW to \in {"SUBMITTED", "COLLECTED", "APPROVED", "REJECTED"},
               NEW signature, NEW basis, Decided(d, to, signature, basis)
        PROVE  Forward
    BY <2>1, <2>4 DEF Decided, Live, Status, TypeOK
  <2> QED
    BY <2>1, <2>2, <2>3, <2>4 DEF DayEffect
<1>2. IInv /\ [Next]_vars => [Forward]_vars
  BY <1>1
<1> QED
  BY <1>2, IInvHolds, PTL DEF Spec, LeftDraftForGood

-----------------------------------------------------------------------------
(* Listeners are queued by approvals only.                                            *)

LEMMA SignaturesStay ==
  ASSUME IInv, [Next]_vars, NEW d \in DayIds
  PROVE  signed[d] \subseteq signed'[d]
<1>1. DayEffect /\ TypeOK
  BY EveryStepHasDayEffect DEF IInv
<1>2. ASSUME NEW e \in DayIds, Opened(e) \/ Deleted(e)
      PROVE  signed[d] \subseteq signed'[d]
  BY <1>2 DEF Opened, Deleted
<1>3. ASSUME NEW e \in DayIds, NEW to, NEW signature, NEW basis, Decided(e, to, signature, basis)
      PROVE  signed[d] \subseteq signed'[d]
  BY <1>1, <1>3 DEF Decided, TypeOK
<1> QED
  BY <1>1, <1>2, <1>3 DEF DayEffect

\* Listeners are queued by one step alone.
LEMMA OnlyDispatchListens ==
  ASSUME [Next]_vars, ~ UNCHANGED listeners
  PROVE  \E r \in Requests : Dispatch(r)
<1>1. ASSUME NEW r \in Requests, CreateSteps(r) \/ RosterSteps(r) \/ Abort(r)
      PROVE  UNCHANGED listeners
  BY <1>1 DEF CreateSteps, RosterSteps, Abort, BeginCreate, InsertDay, InsertSection, FinishCreate,
     BeginDiscard, Begin, Discard, BeginRetime, BeginSectionEdit, Retime, BeginAssign, InsertAssignment,
     BeginPatchCrew, BeginPatchNote, BeginDeleteAssignment, BeginAssignmentEdit, SaveAssignment,
     ReadCrew, WriteCrew, DeleteAssignment
<1>2. ASSUME NEW r \in Requests, ChainSteps(r), ~ Dispatch(r)
      PROVE  UNCHANGED listeners
  BY <1>2 DEF ChainSteps, Begin, BeginSubmit, BeginCollect, BeginApprove, BeginReject, ListSubmitted,
     CheckSection, SaveSubmit, SaveCollect, SaveApprove, ListApproved, FinishApprove, SaveReject
<1> QED
  BY <1>1, <1>2 DEF Next, vars

\* Whatever overlaps an approval, a section has a listener only if an administrator
\* approved its day.
THEOREM ListenersBackedHolds == Spec => []ListenersBacked
<1>1. Init => ListenersBacked
  BY DEF Init, ListenersBacked
<1>2. ASSUME IInv, ListenersBacked, [Next]_vars
      PROVE  ListenersBacked'
  <2>1. \A d \in DayIds : signed[d] \subseteq signed'[d]
    BY <1>2, SignaturesStay
  <2>2. CASE UNCHANGED listeners
    BY <1>2, <2>1, <2>2 DEF ListenersBacked
  <2>3. ASSUME NEW r \in Requests, Dispatch(r)
        PROVE  ListenersBacked'
    <3>1. req[r].day \in DayIds /\ "approved" \in signed[req[r].day]
      BY <1>2, <2>3 DEF IInv, InFlight, MemoryOK, Dispatch, At
    <3>2. \A d \in DayIds, s \in Stages : d # req[r].day => listeners'[d][s] = listeners[d][s]
      BY <1>2, <2>3 DEF Dispatch, IInv, TypeOK
    <3> QED
      BY <1>2, <2>1, <3>1, <3>2 DEF ListenersBacked
  <2>4. ASSUME ~ UNCHANGED listeners
        PROVE  \E r \in Requests : Dispatch(r)
    BY <1>2, <2>4, OnlyDispatchListens
  <2> QED
    BY <2>2, <2>3, <2>4
<1>3. ListenersBacked /\ IInv /\ [Next]_vars => ListenersBacked'
  BY <1>2
<1> QED
  BY <1>1, <1>3, IInvHolds, PTL DEF Spec

-----------------------------------------------------------------------------
(* The roster keeps no orphans.                                                       *)

\* Assignment a stands in a section that exists, and only such an assignment has a crew.
InOrder(a, ho, cr, se) ==
  /\ ho[a] \in Sections => ho[a][2] \in se[ho[a][1]]
  /\ cr[a] # {} => ho[a] \in Sections

LEMMA DiscardKeepsOrder ==
  ASSUME IInv, RosterIntegrity, NEW r \in Requests, Discard(r), NEW a \in AssignIds
  PROVE  InOrder(a, home', crew', sections')
<1> DEFINE d == req[r].day
<1>1. d \in DayIds
  BY DEF IInv, InFlight, MemoryOK, Discard, At
<1>2. sections' = [sections EXCEPT ![d] = {}]
  BY DEF Discard
<1>3. CASE \E s \in Stages : home[a] = <<d, s>>
  <2>1. home'[a] = <<"deleted", 0>> /\ crew'[a] = {}
    BY <1>3 DEF Discard
  <2>2. <<"deleted", 0>> \notin Sections
    BY DEF Sections, Stages
  <2> QED
    BY <2>1, <2>2 DEF InOrder
<1>4. CASE ~ \E s \in Stages : home[a] = <<d, s>>
  <2>1. home'[a] = home[a] /\ crew'[a] = crew[a]
    BY <1>4 DEF Discard
  <2>2. home[a] \in Sections => home[a][1] \in DayIds /\ home[a][1] # d
    BY <1>4 DEF Sections
  <2>3. home[a] \in Sections => sections'[home[a][1]] = sections[home[a][1]]
    BY <1>1, <1>2, <2>2 DEF IInv, TypeOK
  <2> QED
    BY <2>1, <2>3 DEF InOrder, RosterIntegrity
<1> QED
  BY <1>3, <1>4

LEMMA MoveKeepsOrder ==
  ASSUME IInv, RosterIntegrity, NEW b \in AssignIds, NEW d \in DayIds, NEW s \in Stages,
         s \in sections[d], home' = [home EXCEPT ![b] = <<d, s>>], UNCHANGED <<crew, sections>>
  PROVE  RosterIntegrity'
<1>1. ASSUME NEW a \in AssignIds
      PROVE  InOrder(a, home', crew', sections')
  <2>1. CASE a = b
    <3>1. home'[a] = <<d, s>> /\ <<d, s>> \in Sections
      BY <2>1 DEF IInv, TypeOK, Sections
    <3> QED
      BY <3>1 DEF InOrder
  <2>2. CASE a # b
    <3>1. home'[a] = home[a]
      BY <2>2 DEF IInv, TypeOK
    <3> QED
      BY <3>1 DEF InOrder, RosterIntegrity
  <2> QED
    BY <2>1, <2>2
<1> QED
  BY <1>1 DEF RosterIntegrity, InOrder

\* Neither a cascading deletion nor a save that brings a deleted assignment back leaves
\* an assignment of no section, or a crew of no assignment.
THEOREM RosterIntegrityHolds == Spec => []RosterIntegrity
<1>1. Init => RosterIntegrity
  <2>1. <<"unborn", 0>> \notin Sections
    BY DEF Sections, Stages
  <2> QED
    BY <2>1 DEF Init, RosterIntegrity
<1>2. ASSUME IInv, RosterIntegrity, [Next]_vars
      PROVE  RosterIntegrity'
  <2>1. CASE UNCHANGED <<home, crew, sections>>
    BY <1>2, <2>1 DEF RosterIntegrity
  <2>2. ASSUME NEW r \in Requests, Discard(r)
        PROVE  RosterIntegrity'
    BY <1>2, <2>2, DiscardKeepsOrder, SMTT(30) DEF InOrder, RosterIntegrity
  <2>3. ASSUME NEW r \in Requests, InsertSection(r)
        PROVE  RosterIntegrity'
    <3>1. \A d \in DayIds : sections[d] \subseteq sections'[d]
      BY <1>2, <2>3 DEF InsertSection, IInv, TypeOK
    <3>2. UNCHANGED <<home, crew>>
      BY <2>3 DEF InsertSection, roster
    <3> QED
      BY <1>2, <3>1, <3>2 DEF RosterIntegrity, Sections
  <2>4. ASSUME NEW r \in Requests, InsertAssignment(r) \/ SaveAssignment(r)
        PROVE  RosterIntegrity'
    <3>1. req[r].day \in DayIds /\ req[r].stage \in Stages
      BY <1>2, <2>4 DEF IInv, InFlight, MemoryOK, InsertAssignment, SaveAssignment, At
    <3>2. CASE UNCHANGED home
      BY <1>2, <2>4, <3>2 DEF InsertAssignment, SaveAssignment, RosterIntegrity
    <3>3. CASE InsertAssignment(r) /\ ~ UNCHANGED home
      <4>1. PICK b \in AssignIds : home' = [home EXCEPT ![b] = <<req[r].day, req[r].stage>>]
        BY <3>3 DEF InsertAssignment
      <4> QED
        BY <1>2, <3>1, <3>3, <4>1, MoveKeepsOrder DEF InsertAssignment
    <3>4. CASE SaveAssignment(r) /\ ~ UNCHANGED home
      <4>1. req[r].asg \in AssignIds
        BY <1>2, <3>4 DEF IInv, InFlight, MemoryOK, SaveAssignment
      <4>2. /\ home' = [home EXCEPT ![req[r].asg] = <<req[r].day, req[r].stage>>]
            /\ req[r].stage \in sections[req[r].day]
            /\ UNCHANGED <<crew, sections>>
        BY <3>4 DEF SaveAssignment
      <4> QED
        BY <1>2, <3>1, <4>1, <4>2, MoveKeepsOrder
    <3> QED
      BY <2>4, <3>2, <3>3, <3>4
  <2>5. ASSUME NEW r \in Requests, WriteCrew(r)
        PROVE  RosterIntegrity'
    <3>1. \A a \in AssignIds : crew'[a] = crew[a] \/ home[a] \in Sections
      BY <1>2, <2>5 DEF WriteCrew, IInv, TypeOK
    <3> QED
      BY <1>2, <2>5, <3>1 DEF WriteCrew, RosterIntegrity
  <2>6. ASSUME NEW r \in Requests, DeleteAssignment(r)
        PROVE  RosterIntegrity'
    <3>1. ASSUME NEW a \in AssignIds
          PROVE  \/ home'[a] = home[a] /\ crew'[a] = crew[a]
                 \/ home'[a] = <<"deleted", 0>> /\ crew'[a] = {}
      <4>1. /\ home' = [home EXCEPT ![req[r].asg] = <<"deleted", 0>>]
            /\ crew' = [crew EXCEPT ![req[r].asg] = {}]
        BY <2>6 DEF DeleteAssignment
      <4>2. DOMAIN home = AssignIds /\ DOMAIN crew = AssignIds
        BY <1>2 DEF IInv, TypeOK
      <4> QED
        BY <4>1, <4>2
    <3>2. <<"deleted", 0>> \notin Sections
      BY DEF Sections, Stages
    <3>3. UNCHANGED sections
      BY <2>6 DEF DeleteAssignment
    <3> QED
      BY <1>2, <3>1, <3>2, <3>3 DEF RosterIntegrity
  <2>7. ASSUME NEW r \in Requests, CreateSteps(r), ~ InsertSection(r)
        PROVE  UNCHANGED <<home, crew, sections>>
    BY <2>7 DEF CreateSteps, BeginCreate, InsertDay, FinishCreate, roster
  <2>8. ASSUME NEW r \in Requests, RosterSteps(r), ~ Discard(r), ~ InsertAssignment(r),
               ~ SaveAssignment(r), ~ WriteCrew(r), ~ DeleteAssignment(r)
        PROVE  UNCHANGED <<home, crew, sections>>
    BY <2>8 DEF RosterSteps, BeginDiscard, Begin, BeginRetime, BeginSectionEdit, Retime,
       BeginAssign, BeginPatchCrew, BeginPatchNote, BeginDeleteAssignment, BeginAssignmentEdit,
       ReadCrew, roster
  <2>9. ASSUME NEW r \in Requests, ChainSteps(r) \/ Abort(r)
        PROVE  UNCHANGED <<home, crew, sections>>
    BY <2>9 DEF ChainSteps, Abort, BeginSubmit, BeginCollect, BeginApprove, BeginReject, Begin,
       ListSubmitted, CheckSection, SaveSubmit, SaveCollect, SaveApprove, ListApproved, Dispatch,
       FinishApprove, SaveReject, roster
  <2>10. UNCHANGED vars => UNCHANGED <<home, crew, sections>>
    BY DEF vars, roster
  <2> QED
    BY <1>2, <2>1, <2>2, <2>3, <2>4, <2>5, <2>6, <2>7, <2>8, <2>9, <2>10 DEF Next
<1>3. RosterIntegrity /\ IInv /\ [Next]_vars => RosterIntegrity'
  BY <1>2
<1> QED
  BY <1>1, <1>3, IInvHolds, PTL DEF Spec

-----------------------------------------------------------------------------
(* When requests do not overlap: one thread serves them all.  What a request holds is *)
(* then what the rows say, so that every decision is taken on the status it was looked *)
(* up with and every edit reaches a draft.                                             *)

OneThread == \A r, q \in Requests : r = q

AssignmentSteps == {"patch.crew", "patch.note", "crew.read", "crew.write", "assign.delete"}
DraftSteps == AssignmentSteps \cup
  {"create.sections", "discard", "retime", "assign.insert", "submit.list", "submit.check"}

Current(m) ==
  /\ m.pc \in DraftSteps => status[m.day] = "DRAFT"
  /\ m.pc \in AssignmentSteps => m.stage \in Stages /\ home[m.asg] = <<m.day, m.stage>>
  /\ m.pc = "submit.check" => \A s \in sections[m.day] \ m.todo : Staffed(m.day, s)
  /\ m.pc = "collect" => status[m.day] = "SUBMITTED"
  /\ m.pc = "approve" => status[m.day] = "COLLECTED"
  /\ m.pc = "reject" => status[m.day] \in {"SUBMITTED", "COLLECTED"}
  /\ m.pc \in {"approve.list", "dispatch"} => status[m.day] = "APPROVED"
  /\ m.pc = "approve.list" => \A s \in Stages : listeners[m.day][s] = 0
  /\ m.pc = "dispatch" =>
       m.todo \subseteq sections[m.day] /\ \A s \in m.todo : listeners[m.day][s] = 0

\* An approved day bears the administrator's signature and no other does; every section of a day
\* under review has an employee.
Orderly ==
  \A d \in DayIds :
    /\ "approved" \in signed[d] <=> status[d] = "APPROVED"
    /\ status[d] \in UnderReview => \A s \in sections[d] : Staffed(d, s)

AllCurrent == \A r \in Requests : Current(req[r])

SInv == IInv /\ AllCurrent /\ Orderly /\ ListenedOnce

\* The steps that write no status and no signature.
LEMMA OthersKeepStatus ==
  ASSUME NEW r \in Requests, CreateSteps(r) \/ RosterSteps(r) \/ ChainSteps(r) \/ Abort(r),
         ~ InsertDay(r), ~ Discard(r), ~ SaveSubmit(r), ~ SaveCollect(r), ~ SaveApprove(r),
         ~ SaveReject(r)
  PROVE  UNCHANGED <<status, signed>>
<1>1. ASSUME CreateSteps(r)
      PROVE  UNCHANGED <<status, signed>>
  BY <1>1 DEF CreateSteps, BeginCreate, InsertSection, FinishCreate
<1>2. ASSUME RosterSteps(r)
      PROVE  UNCHANGED <<status, signed>>
  BY <1>2 DEF RosterSteps, BeginDiscard, Begin, BeginRetime, BeginSectionEdit, Retime, BeginAssign,
     InsertAssignment, BeginPatchCrew, BeginPatchNote, BeginDeleteAssignment, BeginAssignmentEdit,
     SaveAssignment, ReadCrew, WriteCrew, DeleteAssignment
<1>3. ASSUME ChainSteps(r)
      PROVE  UNCHANGED <<status, signed>>
  BY <1>3 DEF ChainSteps, BeginSubmit, BeginCollect, BeginApprove, BeginReject, Begin, ListSubmitted,
     CheckSection, ListApproved, Dispatch, FinishApprove
<1>4. ASSUME Abort(r)
      PROVE  UNCHANGED <<status, signed>>
  BY <1>4 DEF Abort
<1> QED
  BY <1>1, <1>2, <1>3, <1>4

\* A decision of a request whose memory is current is a step of the approval chain.
LEMMA ChainStep ==
  ASSUME IInv, AllCurrent, [Next]_vars
  PROVE  [Chain!Next]_(Chain!vars)
<1>1. CASE UNCHANGED <<status, signed>>
  BY <1>1 DEF Chain!vars
<1>2. ASSUME NEW r \in Requests, InsertDay(r), ~ UNCHANGED <<status, signed>>
      PROVE  Chain!Next
  BY <1>2 DEF InsertDay, Chain!Next, Chain!Open
<1>3. ASSUME NEW r \in Requests
      PROVE  req[r] \in Request /\ MemoryOK(req[r], signed) /\ Current(req[r])
  BY DEF IInv, TypeOK, InFlight, AllCurrent
<1>4. ASSUME NEW r \in Requests, Discard(r)
      PROVE  Chain!Next
  <2>1. req[r].day \in DayIds /\ status[req[r].day] = "DRAFT"
    BY <1>3, <1>4 DEF Discard, At, MemoryOK, Current, DraftSteps
  <2> QED
    BY <1>4, <2>1 DEF Discard, Chain!Next, Chain!Discard
<1>5. ASSUME NEW r \in Requests, SaveSubmit(r), ~ UNCHANGED <<status, signed>>
      PROVE  Chain!Next
  <2>1. req[r].day \in DayIds /\ status[req[r].day] = "DRAFT"
    BY <1>3, <1>5 DEF SaveSubmit, At, MemoryOK, Current, DraftSteps
  <2> QED
    BY <1>5, <2>1 DEF SaveSubmit, Save, Chain!Next, Chain!Submit, Chain!Decide
<1>6. ASSUME NEW r \in Requests, SaveCollect(r), ~ UNCHANGED <<status, signed>>
      PROVE  Chain!Next
  <2>1. req[r].day \in DayIds /\ status[req[r].day] = "SUBMITTED"
    BY <1>3, <1>6 DEF SaveCollect, At, MemoryOK, Current
  <2> QED
    BY <1>6, <2>1 DEF SaveCollect, Save, Chain!Next, Chain!Collect, Chain!Decide
<1>7. ASSUME NEW r \in Requests, SaveApprove(r), ~ UNCHANGED <<status, signed>>
      PROVE  Chain!Next
  <2>1. req[r].day \in DayIds /\ status[req[r].day] = "COLLECTED"
    BY <1>3, <1>7 DEF SaveApprove, At, MemoryOK, Current
  <2> QED
    BY <1>7, <2>1 DEF SaveApprove, Save, Chain!Next, Chain!Approve, Chain!Decide
<1>8. ASSUME NEW r \in Requests, SaveReject(r), ~ UNCHANGED <<status, signed>>
      PROVE  Chain!Next
  <2>1. req[r].day \in DayIds /\ status[req[r].day] \in {"SUBMITTED", "COLLECTED"}
    BY <1>3, <1>8 DEF SaveReject, At, MemoryOK, Current
  <2> QED
    BY <1>8, <2>1 DEF SaveReject, Save, Chain!Next, Chain!Reject, Chain!Decide
<1>9. CASE UNCHANGED vars
  BY <1>1, <1>9 DEF vars
<1> QED
  BY <1>1, <1>2, <1>4, <1>5, <1>6, <1>7, <1>8, <1>9, OthersKeepStatus DEF Next

\* What a step leaves alone of the content of day d.
Untouched(d) ==
  /\ sections'[d] = sections[d] /\ retimed'[d] = retimed[d]
  /\ \A a \in AssignIds, s \in Stages :
       home[a] = <<d, s>> \/ home'[a] = <<d, s>> => home'[a] = home[a] /\ crew'[a] = crew[a]

\* An edit of a request whose memory is current reaches a draft.
LEMMA OnlyDraftsChange ==
  ASSUME IInv, AllCurrent, [Next]_vars, NEW d \in DayIds,
         status[d] \in UnderReview \cup {"REJECTED"}
  PROVE  Untouched(d)
<1>1. ASSUME UNCHANGED <<sections, retimed, home, crew>>
      PROVE  Untouched(d)
  BY <1>1 DEF Untouched
<1>2. ASSUME NEW r \in Requests
      PROVE  req[r] \in Request /\ MemoryOK(req[r], signed) /\ Current(req[r])
  BY DEF IInv, TypeOK, InFlight, AllCurrent
<1>3. ASSUME NEW r \in Requests, InsertSection(r)
      PROVE  Untouched(d)
  <2>1. req[r].day # d
    BY <1>2, <1>3 DEF InsertSection, At, Current, DraftSteps, UnderReview
  <2> QED
    BY <1>3, <2>1 DEF InsertSection, Untouched, IInv, TypeOK, roster
<1>4. ASSUME NEW r \in Requests, Discard(r)
      PROVE  Untouched(d)
  <2>1. req[r].day # d /\ req[r].day \in DayIds
    BY <1>2, <1>4 DEF Discard, At, Current, MemoryOK, DraftSteps, UnderReview
  <2>2. sections'[d] = sections[d] /\ retimed'[d] = retimed[d]
    BY <1>4, <2>1 DEF Discard, IInv, TypeOK
  <2>3. ASSUME NEW a \in AssignIds, NEW s \in Stages, home[a] = <<d, s>> \/ home'[a] = <<d, s>>
        PROVE  home'[a] = home[a] /\ crew'[a] = crew[a]
    <3>1. <<"deleted", 0>> # <<d, s>>
      BY DEF Stages
    <3>2. \A t \in Stages : <<req[r].day, t>> # <<d, s>>
      BY <2>1
    <3>3. \/ home'[a] = home[a] /\ crew'[a] = crew[a]
          \/ home'[a] = <<"deleted", 0>> /\ \E t \in Stages : home[a] = <<req[r].day, t>>
      BY <1>4 DEF Discard
    <3> QED
      BY <2>3, <3>1, <3>2, <3>3
  <2> QED
    BY <2>2, <2>3 DEF Untouched
<1>5. ASSUME NEW r \in Requests, Retime(r)
      PROVE  Untouched(d)
  <2>1. req[r].day # d
    BY <1>2, <1>5 DEF Retime, At, Current, DraftSteps, UnderReview
  <2> QED
    BY <1>5, <2>1 DEF Retime, Untouched, IInv, TypeOK, roster
<1>6. ASSUME NEW r \in Requests, InsertAssignment(r)
      PROVE  Untouched(d)
  <2>1. req[r].day # d
    BY <1>2, <1>6 DEF InsertAssignment, At, Current, DraftSteps, UnderReview
  <2>2. \A s \in Stages : <<"unborn", 0>> # <<d, s>>
    BY DEF Stages
  <2>3. CASE UNCHANGED home
    BY <1>1, <1>6, <2>3 DEF InsertAssignment
  <2>4. ASSUME NEW b \in AssignIds, home[b] = <<"unborn", 0>>,
               home' = [home EXCEPT ![b] = <<req[r].day, req[r].stage>>]
        PROVE  Untouched(d)
    <3>1. \A a \in AssignIds : a # b => home'[a] = home[a]
      BY <2>4 DEF IInv, TypeOK
    <3>2. \A s \in Stages : home[b] # <<d, s>> /\ home'[b] # <<d, s>>
      BY <2>1, <2>2, <2>4 DEF IInv, TypeOK
    <3> QED
      BY <1>6, <3>1, <3>2 DEF InsertAssignment, Untouched
  <2> QED
    BY <1>6, <2>3, <2>4 DEF InsertAssignment
<1>7. ASSUME NEW r \in Requests, SaveAssignment(r) \/ WriteCrew(r) \/ DeleteAssignment(r)
      PROVE  Untouched(d)
  <2>1. /\ req[r].day # d /\ req[r].asg \in AssignIds
        /\ home[req[r].asg] = <<req[r].day, req[r].stage>>
    BY <1>2, <1>7 DEF SaveAssignment, WriteCrew, DeleteAssignment, At, Current, MemoryOK, DraftSteps,
       AssignmentSteps, UnderReview
  <2>2. \A s \in Stages : <<"deleted", 0>> # <<d, s>>
    BY DEF Stages
  <2>3. /\ UNCHANGED <<sections, retimed>>
        /\ \A a \in AssignIds : a # req[r].asg => home'[a] = home[a] /\ crew'[a] = crew[a]
        /\ home'[req[r].asg] \in {<<req[r].day, req[r].stage>>, <<"deleted", 0>>}
    BY <1>7, <2>1 DEF SaveAssignment, WriteCrew, DeleteAssignment, IInv, TypeOK
  <2> QED
    BY <2>1, <2>2, <2>3 DEF Untouched
<1>8. ASSUME NEW r \in Requests, CreateSteps(r), ~ InsertSection(r)
      PROVE  UNCHANGED <<sections, retimed, home, crew>>
  BY <1>8 DEF CreateSteps, BeginCreate, InsertDay, FinishCreate, roster
<1>9. ASSUME NEW r \in Requests, RosterSteps(r), ~ Discard(r), ~ Retime(r), ~ InsertAssignment(r),
             ~ SaveAssignment(r), ~ WriteCrew(r), ~ DeleteAssignment(r)
      PROVE  UNCHANGED <<sections, retimed, home, crew>>
  BY <1>9 DEF RosterSteps, BeginDiscard, Begin, BeginRetime, BeginSectionEdit, BeginAssign,
     BeginPatchCrew, BeginPatchNote, BeginDeleteAssignment, BeginAssignmentEdit, ReadCrew, roster
<1>10. ASSUME NEW r \in Requests, ChainSteps(r)
       PROVE  UNCHANGED <<sections, retimed, home, crew>>
  BY <1>10 DEF ChainSteps, BeginSubmit, BeginCollect, BeginApprove, BeginReject, Begin, ListSubmitted,
     CheckSection, SaveSubmit, SaveCollect, SaveApprove, SaveReject, ListApproved, Dispatch,
     FinishApprove, roster
<1>11. CASE UNCHANGED vars \/ \E r \in Requests : Abort(r)
  BY <1>1, <1>11 DEF vars, Abort, roster
<1> QED
  BY <1>1, <1>3, <1>4, <1>5, <1>6, <1>7, <1>8, <1>9, <1>10, <1>11 DEF Next

LEMMA IdleIsCurrent ==
  ASSUME NEW r \in Requests, req'[r] = Idle
  PROVE  Current(req[r])'
BY DEF Current, Idle, DraftSteps, AssignmentSteps

LEMMA CreateStaysCurrent ==
  ASSUME SInv, NEW r \in Requests, CreateSteps(r)
  PROVE  Current(req[r])'
<1>1. TypeOK /\ req[r] \in Request /\ MemoryOK(req[r], signed) /\ Current(req[r])
  BY DEF SInv, IInv, TypeOK, InFlight, AllCurrent
<1>2. ASSUME req'[r].pc = "create.insert"
      PROVE  Current(req[r])'
  BY <1>2 DEF Current, DraftSteps, AssignmentSteps
<1>3. ASSUME req'[r].pc = "create.sections", status'[req'[r].day] = "DRAFT"
      PROVE  Current(req[r])'
  BY <1>3 DEF Current, AssignmentSteps
<1>4. CASE BeginCreate(r)
  <2>1. req'[r].pc = "create.insert"
    BY <1>1, <1>4 DEF BeginCreate, Becomes, TypeOK, Idle
  <2> QED
    BY <1>2, <2>1
<1>5. CASE InsertDay(r)
  <2>1. CASE Becomes(r, Idle)
    BY <1>1, <2>1, IdleIsCurrent DEF Becomes, TypeOK
  <2>2. ASSUME NEW d \in DayIds, status' = [status EXCEPT ![d] = "DRAFT"],
               Becomes(r, [Idle EXCEPT !.pc = "create.sections", !.day = d, !.todo = Stages])
        PROVE  Current(req[r])'
    <3>1. req'[r].pc = "create.sections" /\ req'[r].day = d /\ status'[d] = "DRAFT"
      BY <1>1, <2>2 DEF Becomes, TypeOK, Idle
    <3> QED
      BY <1>3, <3>1
  <2> QED
    BY <1>5, <2>1, <2>2 DEF InsertDay
<1>6. CASE InsertSection(r)
  <2> DEFINE m == [req[r] EXCEPT !.todo = @ \ {First(req[r].todo)}]
  <2>1. UNCHANGED status /\ req[r].pc = "create.sections" /\ status[req[r].day] = "DRAFT"
    BY <1>1, <1>6 DEF InsertSection, At, Current, DraftSteps
  <2>2. CASE Becomes(r, Idle)
    BY <1>1, <2>2, IdleIsCurrent DEF Becomes, TypeOK
  <2>3. CASE Becomes(r, m)
    <3>1. req'[r].pc = "create.sections" /\ req'[r].day = req[r].day
      BY <1>1, <2>1, <2>3 DEF Becomes, TypeOK, Request
    <3> QED
      BY <1>3, <2>1, <3>1
  <2> QED
    BY <1>6, <2>2, <2>3 DEF InsertSection
<1>7. CASE FinishCreate(r)
  BY <1>1, <1>7, IdleIsCurrent DEF FinishCreate, Becomes, TypeOK
<1> QED
  BY <1>4, <1>5, <1>6, <1>7 DEF CreateSteps

LEMMA RosterStaysCurrent ==
  ASSUME SInv, NEW r \in Requests, RosterSteps(r)
  PROVE  Current(req[r])'
<1>1. TypeOK /\ req[r] \in Request /\ MemoryOK(req[r], signed) /\ Current(req[r])
  BY DEF SInv, IInv, TypeOK, InFlight, AllCurrent
<1>2. ASSUME req'[r].pc \in {"discard", "retime", "assign.insert"}, status'[req'[r].day] = "DRAFT"
      PROVE  Current(req[r])'
  BY <1>2 DEF Current, AssignmentSteps
<1>3. ASSUME req'[r].pc \in AssignmentSteps, status'[req'[r].day] = "DRAFT", req'[r].stage \in Stages,
             home'[req'[r].asg] = <<req'[r].day, req'[r].stage>>
      PROVE  Current(req[r])'
  BY <1>3 DEF Current, AssignmentSteps
<1>4. CASE Becomes(r, Idle)
  BY <1>1, <1>4, IdleIsCurrent DEF Becomes, TypeOK
<1>5. ASSUME NEW d \in DayIds, BeginDiscard(r, d)
      PROVE  Current(req[r])'
  <2>1. req'[r].pc = "discard" /\ req'[r].day = d /\ status'[d] = "DRAFT"
    BY <1>1, <1>5 DEF BeginDiscard, Begin, Becomes, TypeOK, Idle
  <2> QED
    BY <1>2, <2>1
<1>6. ASSUME NEW d \in DayIds, NEW s \in Stages, BeginRetime(r, d, s)
      PROVE  Current(req[r])'
  <2>1. req'[r].pc = "retime" /\ req'[r].day = d /\ status'[d] = "DRAFT"
    BY <1>1, <1>6 DEF BeginRetime, BeginSectionEdit, Becomes, TypeOK, Idle
  <2> QED
    BY <1>2, <2>1
<1>7. ASSUME NEW d \in DayIds, NEW s \in Stages, NEW W \in SUBSET Employees, BeginAssign(r, d, s, W)
      PROVE  Current(req[r])'
  <2>1. req'[r].pc = "assign.insert" /\ req'[r].day = d /\ status'[d] = "DRAFT"
    BY <1>1, <1>7 DEF BeginAssign, Becomes, TypeOK, Idle
  <2> QED
    BY <1>2, <2>1
<1>8. CASE InsertAssignment(r)
  <2>1. ASSUME NEW a \in AssignIds, home' = [home EXCEPT ![a] = <<req[r].day, req[r].stage>>],
               Becomes(r, [req[r] EXCEPT !.pc = "crew.read", !.asg = a])
        PROVE  Current(req[r])'
    <3>1. /\ req'[r].pc = "crew.read" /\ req'[r].day = req[r].day /\ req'[r].stage = req[r].stage
          /\ req'[r].asg = a /\ home'[a] = <<req[r].day, req[r].stage>>
      BY <1>1, <2>1 DEF Becomes, TypeOK, Request
    <3>2. req[r].stage \in Stages /\ status[req[r].day] = "DRAFT" /\ UNCHANGED status
      BY <1>1, <1>8 DEF InsertAssignment, At, MemoryOK, Current, DraftSteps
    <3> QED
      BY <1>3, <3>1, <3>2 DEF AssignmentSteps
  <2> QED
    BY <1>4, <1>8, <2>1 DEF InsertAssignment
<1>9. ASSUME NEW a \in AssignIds, NEW W \in SUBSET Employees,
             NEW step \in {"patch.crew", "patch.note", "assign.delete"},
             BeginAssignmentEdit(r, step, a, W)
      PROVE  Current(req[r])'
  <2> PICK d \in DayIds, s \in Stages :
        /\ home[a] = <<d, s>> /\ status[d] = "DRAFT"
        /\ Becomes(r, [Idle EXCEPT !.pc = step, !.day = d, !.stage = s, !.asg = a, !.want = W])
    BY <1>9 DEF BeginAssignmentEdit
  <2>1. req'[r].pc = step /\ req'[r].day = d /\ req'[r].stage = s /\ req'[r].asg = a
    BY <1>1 DEF Becomes, TypeOK, Idle
  <2>2. UNCHANGED <<status, home>>
    BY <1>9 DEF BeginAssignmentEdit, roster
  <2> QED
    BY <1>3, <2>1, <2>2 DEF AssignmentSteps
<1>10. CASE SaveAssignment(r)
  <2>1. /\ req[r].stage \in Stages /\ status[req[r].day] = "DRAFT" /\ UNCHANGED status
        /\ req[r].asg \in AssignIds /\ home[req[r].asg] = <<req[r].day, req[r].stage>>
    BY <1>1, <1>10 DEF SaveAssignment, MemoryOK, Current, DraftSteps, AssignmentSteps
  <2>2. home'[req[r].asg] = <<req[r].day, req[r].stage>>
    BY <1>1, <1>10, <2>1 DEF SaveAssignment, TypeOK
  <2>3. CASE Becomes(r, [req[r] EXCEPT !.pc = "crew.read"])
    <3>1. /\ req'[r].pc = "crew.read" /\ req'[r].day = req[r].day /\ req'[r].stage = req[r].stage
          /\ req'[r].asg = req[r].asg
      BY <1>1, <2>3 DEF Becomes, TypeOK, Request
    <3> QED
      BY <1>3, <2>1, <2>2, <3>1 DEF AssignmentSteps
  <2> QED
    BY <1>4, <1>10, <2>3 DEF SaveAssignment
<1>11. CASE ReadCrew(r)
  <2>1. /\ req'[r].pc = "crew.write" /\ req'[r].day = req[r].day /\ req'[r].stage = req[r].stage
        /\ req'[r].asg = req[r].asg
    BY <1>1, <1>11 DEF ReadCrew, Becomes, TypeOK, Request
  <2>2. /\ req[r].stage \in Stages /\ status[req[r].day] = "DRAFT" /\ UNCHANGED <<status, home>>
        /\ home[req[r].asg] = <<req[r].day, req[r].stage>>
    BY <1>1, <1>11 DEF ReadCrew, At, Current, DraftSteps, AssignmentSteps, roster
  <2> QED
    BY <1>3, <2>1, <2>2 DEF AssignmentSteps
<1>12. CASE Discard(r) \/ Retime(r) \/ WriteCrew(r) \/ DeleteAssignment(r)
  BY <1>4, <1>12 DEF Discard, Retime, WriteCrew, DeleteAssignment
<1> QED
  BY <1>5, <1>6, <1>7, <1>8, <1>9, <1>10, <1>11, <1>12
  DEF RosterSteps, BeginPatchCrew, BeginPatchNote, BeginDeleteAssignment

LEMMA ChainStaysCurrent ==
  ASSUME SInv, NEW r \in Requests, ChainSteps(r)
  PROVE  Current(req[r])'
<1>1. TypeOK /\ req[r] \in Request /\ MemoryOK(req[r], signed) /\ Current(req[r])
  BY DEF SInv, IInv, TypeOK, InFlight, AllCurrent
<1>2. CASE Becomes(r, Idle)
  BY <1>1, <1>2, IdleIsCurrent DEF Becomes, TypeOK
<1>3. ASSUME NEW d \in DayIds, NEW step \in {"submit.list", "collect", "approve", "reject"}, NEW from,
             Begin(r, step, d, from),
             step = "submit.list" => from = {"DRAFT"}, step = "collect" => from = {"SUBMITTED"},
             step = "approve" => from = {"COLLECTED"},
             step = "reject" => from = {"SUBMITTED", "COLLECTED"}
      PROVE  Current(req[r])'
  <2>1. req'[r].pc = step /\ req'[r].day = d /\ status'[d] \in from
    BY <1>1, <1>3 DEF Begin, Becomes, TypeOK, Idle
  <2> QED
    BY <1>3, <2>1 DEF Current, DraftSteps, AssignmentSteps
<1>4. CASE ListSubmitted(r)
  <2>1. /\ req'[r].pc = "submit.check" /\ req'[r].day = req[r].day
        /\ req'[r].todo = sections[req[r].day]
    BY <1>1, <1>4 DEF ListSubmitted, Becomes, TypeOK, Request
  <2>2. status[req[r].day] = "DRAFT" /\ UNCHANGED <<status, sections>>
    BY <1>1, <1>4 DEF ListSubmitted, At, Current, DraftSteps
  <2> QED
    BY <2>1, <2>2 DEF Current, AssignmentSteps
<1>5. CASE CheckSection(r)
  <2> DEFINE d == req[r].day
             s == First(req[r].todo)
  <2>1. CASE Staffed(d, s)
    <3>1. /\ req'[r].pc = "submit.check" /\ req'[r].day = d
          /\ req'[r].todo = req[r].todo \ {s}
      BY <1>1, <1>5, <2>1 DEF CheckSection, At, Becomes, TypeOK, Request
    <3>2. /\ status[d] = "DRAFT" /\ UNCHANGED <<status, sections, home, crew>>
          /\ \A t \in sections[d] \ req[r].todo : Staffed(d, t)
      BY <1>1, <1>5 DEF CheckSection, At, Current, DraftSteps, roster
    <3>3. \A t \in sections'[d] \ req'[r].todo : Staffed(d, t)
      BY <2>1, <3>1, <3>2
    <3> QED
      BY <3>1, <3>2, <3>3 DEF Current, AssignmentSteps, Staffed
  <2> QED
    BY <1>2, <1>5, <2>1 DEF CheckSection
<1>6. CASE SaveSubmit(r) \/ SaveCollect(r) \/ SaveReject(r) \/ FinishApprove(r)
  BY <1>2, <1>6 DEF SaveSubmit, SaveCollect, SaveReject, FinishApprove, Save
<1>7. CASE SaveApprove(r)
  <2> DEFINE d == req[r].day
  <2>1. d \in DayIds /\ status[d] = "COLLECTED" /\ UNCHANGED listeners
    BY <1>1, <1>7 DEF SaveApprove, At, Current, MemoryOK
  <2>2. /\ Becomes(r, [req[r] EXCEPT !.pc = "approve.list"])
        /\ status' = [status EXCEPT ![d] = "APPROVED"]
    BY <1>7, <2>1 DEF SaveApprove, Save, Live, Status
  <2>3. req'[r].pc = "approve.list" /\ req'[r].day = d /\ status'[d] = "APPROVED"
    BY <1>1, <2>1, <2>2 DEF Becomes, TypeOK, Request
  <2>4. \A s \in Stages : listeners'[d][s] = 0
    BY <1>1, <2>1 DEF SInv, ListenedOnce, TypeOK
  <2> QED
    BY <2>3, <2>4 DEF Current, DraftSteps, AssignmentSteps
<1>8. CASE ListApproved(r)
  <2> DEFINE d == req[r].day
  <2>1. req'[r].pc = "dispatch" /\ req'[r].day = d /\ req'[r].todo = sections[d]
    BY <1>1, <1>8 DEF ListApproved, Becomes, TypeOK, Request
  <2>2. /\ d \in DayIds /\ status[d] = "APPROVED" /\ UNCHANGED <<status, sections, listeners>>
        /\ \A s \in Stages : listeners[d][s] = 0
    BY <1>1, <1>8 DEF ListApproved, At, Current, MemoryOK
  <2>3. sections[d] \subseteq Stages
    BY <1>1, <2>2 DEF TypeOK
  <2> QED
    BY <2>1, <2>2, <2>3 DEF Current, DraftSteps, AssignmentSteps
<1>9. CASE Dispatch(r)
  <2> DEFINE d == req[r].day
             s == First(req[r].todo)
  <2>1. req'[r].pc = "dispatch" /\ req'[r].day = d /\ req'[r].todo = req[r].todo \ {s}
    BY <1>1, <1>9 DEF Dispatch, At, Becomes, TypeOK, Request
  <2>2. /\ d \in DayIds /\ status[d] = "APPROVED" /\ UNCHANGED <<status, sections>>
        /\ req[r].todo \subseteq sections[d] /\ \A t \in req[r].todo : listeners[d][t] = 0
    BY <1>1, <1>9 DEF Dispatch, At, Current, MemoryOK
  <2>3. \A t \in req[r].todo \ {s} : listeners'[d][t] = listeners[d][t]
    BY <1>1, <1>9, <2>2 DEF Dispatch, TypeOK
  <2> QED
    BY <2>1, <2>2, <2>3 DEF Current, DraftSteps, AssignmentSteps
<1> QED
  BY <1>3, <1>4, <1>5, <1>6, <1>7, <1>8, <1>9
  DEF ChainSteps, BeginSubmit, BeginCollect, BeginApprove, BeginReject

LEMMA CurrentPreserved ==
  ASSUME OneThread, SInv, [Next]_vars
  PROVE  AllCurrent'
<1>1. CASE UNCHANGED vars
  BY <1>1 DEF vars, roster, SInv, AllCurrent, Current, Staffed
<1>2. ASSUME NEW r \in Requests, Abort(r)
      PROVE  Current(req[r])'
  BY <1>2, IdleIsCurrent DEF Abort, Becomes, SInv, IInv, TypeOK
<1>3. ASSUME NEW r \in Requests, CreateSteps(r) \/ RosterSteps(r) \/ ChainSteps(r) \/ Abort(r)
      PROVE  AllCurrent'
  <2>1. Current(req[r])'
    BY <1>2, <1>3, CreateStaysCurrent, RosterStaysCurrent, ChainStaysCurrent
  <2> QED
    BY <2>1 DEF OneThread, AllCurrent
<1> QED
  BY <1>1, <1>3 DEF Next

\* Only a submission whose checks have passed brings a day before its reviewers.
LEMMA SubmittedIsStaffed ==
  ASSUME SInv, [Next]_vars, NEW d \in DayIds, status[d] \notin UnderReview, status'[d] \in UnderReview
  PROVE  \A s \in sections'[d] : Staffed(d, s)'
<1>1. TypeOK /\ \A r \in Requests : MemoryOK(req[r], signed) /\ Current(req[r])
  BY DEF SInv, IInv, InFlight, AllCurrent
<1>2. PICK r \in Requests : CreateSteps(r) \/ RosterSteps(r) \/ ChainSteps(r) \/ Abort(r)
  BY DEF Next, vars
<1>3. \/ InsertDay(r) \/ Discard(r) \/ SaveSubmit(r) \/ SaveCollect(r) \/ SaveApprove(r)
      \/ SaveReject(r)
  BY <1>2, OthersKeepStatus
<1>4. ~ InsertDay(r)
  BY <1>1 DEF InsertDay, TypeOK, UnderReview
<1>5. ~ Discard(r) /\ ~ SaveReject(r)
  BY <1>1 DEF Discard, SaveReject, Save, TypeOK, UnderReview
<1>6. ~ SaveCollect(r) /\ ~ SaveApprove(r)
  BY <1>1 DEF SaveCollect, SaveApprove, Save, At, Current, TypeOK, UnderReview
<1>7. SaveSubmit(r)
  BY <1>3, <1>4, <1>5, <1>6
<1>8. req[r].day = d
  BY <1>1, <1>7 DEF SaveSubmit, Save, TypeOK
<1>9. \A s \in sections[d] : Staffed(d, s)
  BY <1>1, <1>7, <1>8 DEF SaveSubmit, At, Current
<1> QED
  BY <1>7, <1>9 DEF SaveSubmit, Staffed, roster

LEMMA OrderlyPreserved ==
  ASSUME SInv, [Next]_vars
  PROVE  Orderly'
<1>1. [Chain!Next]_(Chain!vars) /\ TypeOK /\ Orderly
  BY ChainStep DEF SInv, IInv
<1> SUFFICES ASSUME NEW d \in DayIds
             PROVE  /\ "approved" \in signed'[d] <=> status'[d] = "APPROVED"
                    /\ status'[d] \in UnderReview => \A s \in sections'[d] : Staffed(d, s)'
  BY DEF Orderly
<1>2. "approved" \in signed'[d] <=> status'[d] = "APPROVED"
  BY <1>1 DEF Orderly, TypeOK, Chain!Next, Chain!vars, Chain!Open, Chain!Discard, Chain!Submit,
     Chain!Collect, Chain!Approve, Chain!Reject, Chain!Decide
<1>3. ASSUME status[d] \in UnderReview
      PROVE  \A s \in sections'[d] : Staffed(d, s)'
  <2>1. Untouched(d)
    BY <1>3, OnlyDraftsChange DEF SInv
  <2>2. \A s \in sections[d] : s \in Stages /\ Staffed(d, s)
    BY <1>1, <1>3 DEF Orderly, TypeOK
  <2> QED
    BY <2>1, <2>2 DEF Untouched, Staffed
<1> QED
  BY <1>2, <1>3, SubmittedIsStaffed

LEMMA ListenedOncePreserved ==
  ASSUME SInv, [Next]_vars
  PROVE  ListenedOnce'
<1>1. [Chain!Next]_(Chain!vars) /\ TypeOK /\ ListenedOnce
  BY ChainStep DEF SInv, IInv
<1>2. ASSUME NEW d \in DayIds, status[d] = "APPROVED"
      PROVE  status'[d] = "APPROVED" /\ sections'[d] = sections[d]
  <2>1. status'[d] = "APPROVED"
    BY <1>1, <1>2 DEF TypeOK, Chain!Next, Chain!vars, Chain!Open, Chain!Discard, Chain!Submit,
       Chain!Collect, Chain!Approve, Chain!Reject, Chain!Decide
  <2>2. Untouched(d)
    BY <1>2, OnlyDraftsChange DEF SInv, UnderReview
  <2> QED
    BY <2>1, <2>2 DEF Untouched
<1>3. CASE UNCHANGED listeners
  BY <1>1, <1>2, <1>3 DEF ListenedOnce
<1>4. ASSUME NEW r \in Requests, Dispatch(r)
      PROVE  ListenedOnce'
  <2> DEFINE d == req[r].day
             s == First(req[r].todo)
  <2>1. req[r] \in Request /\ MemoryOK(req[r], signed) /\ Current(req[r]) /\ At(r, "dispatch")
    BY <1>4 DEF Dispatch, SInv, IInv, TypeOK, InFlight, AllCurrent
  <2>2. d \in DayIds /\ s \in req[r].todo /\ s \in Stages
    BY <1>4, <2>1, FirstInSet DEF Dispatch, At, Request, MemoryOK
  <2>3. status[d] = "APPROVED" /\ s \in sections[d] /\ listeners[d][s] = 0
    BY <2>1, <2>2 DEF Current, At
  <2>4. listeners'[d][s] = 1
    BY <1>1, <1>4, <2>2, <2>3 DEF Dispatch, TypeOK
  <2>5. \A e \in DayIds, t \in Stages : <<e, t>> # <<d, s>> => listeners'[e][t] = listeners[e][t]
    BY <1>1, <1>4, <2>2 DEF Dispatch, TypeOK
  <2> QED
    BY <1>1, <1>2, <2>2, <2>3, <2>4, <2>5 DEF ListenedOnce
<1> QED
  BY <1>3, <1>4, OnlyDispatchListens

LEMMA SInvHolds ==
  ASSUME OneThread
  PROVE  Spec => []SInv
<1>1. Init => SInv
  <2> SUFFICES ASSUME Init
               PROVE  AllCurrent /\ Orderly /\ ListenedOnce
    BY IInvInitially DEF SInv
  <2>1. AllCurrent
    BY DEF Init, AllCurrent, Current, Idle, DraftSteps, AssignmentSteps
  <2> QED
    BY <2>1 DEF Init, Orderly, ListenedOnce, UnderReview
<1>2. SInv /\ [Next]_vars => SInv'
  <2> SUFFICES ASSUME SInv, [Next]_vars
               PROVE  SInv'
    OBVIOUS
  <2>1. IInv'
    BY IInvPreserved DEF SInv
  <2> QED
    BY <2>1, CurrentPreserved, OrderlyPreserved, ListenedOncePreserved DEF SInv
<1> QED
  BY <1>1, <1>2, PTL DEF Spec

\* With one request thread, a section is never listened to twice nor without the approval of its day
\* (approve_duty_day queues the listeners after the save).
THEOREM ListenedOnceHolds ==
  ASSUME OneThread
  PROVE  Spec => []ListenedOnce
<1>1. SInv => ListenedOnce
  BY DEF SInv
<1> QED
  BY <1>1, SInvHolds, PTL

\* With one request thread, the day takes no step but those of the approval chain.
THEOREM ChainHolds ==
  ASSUME OneThread
  PROVE  Spec => ChainSpec
<1>1. Init => Chain!Init
  BY DEF Init, Chain!Init
<1>2. SInv /\ [Next]_vars => [Chain!Next]_(Chain!vars)
  BY ChainStep DEF SInv
<1> QED
  BY <1>1, <1>2, SInvHolds, PTL DEF Spec, ChainSpec, Chain!Spec

\* With one request thread, the sections, times and roster of a submitted day are final: every edit
\* looks at the status of the day first (the DRAFT checks of the views).
THEOREM ContentFrozenHolds ==
  ASSUME OneThread
  PROVE  Spec => ContentFrozen
<1> DEFINE Frozen ==
      \A d \in DayIds : status[d] \in UnderReview \cup {"REJECTED"} =>
        /\ sections'[d] = sections[d] /\ retimed'[d] = retimed[d]
        /\ \A a \in AssignIds, s \in Stages :
             home[a] = <<d, s>> \/ home'[a] = <<d, s>> =>
               home'[a] = home[a] /\ crew'[a] = crew[a]
<1>1. SInv /\ [Next]_vars => [Frozen]_vars
  BY OnlyDraftsChange DEF SInv, Untouched
<1> QED
  BY <1>1, SInvHolds, PTL DEF Spec, ContentFrozen

\* A section with an employee is printed with a line.
LEMMA StaffedIsPrinted ==
  ASSUME NEW d \in DayIds, NEW s \in Stages, Staffed(d, s)
  PROVE  Lines(Rows(d, s), crew) \notin {{}, {Unassigned}}
<1>1. PICK a \in AssignIds : home[a] = <<d, s>> /\ crew[a] # {}
  BY DEF Staffed
<1>2. PICK e : e \in crew[a]
  BY <1>1
<1>3. <<a, e>> \in Lines(Rows(d, s), crew)
  BY <1>1, <1>2 DEF Lines, Rows
<1>4. ASSUME Lines(Rows(d, s), crew) = {Unassigned}
      PROVE  FALSE
  <2>1. <<a, e>> = Unassigned
    BY <1>3, <1>4
  <2> QED
    BY <2>1, PaperAssumption DEF Unassigned
<1> QED
  BY <1>3, <1>4

\* With one request thread, a day under review is printed with an employee in every section, and with
\* the administrator's name exactly when it is approved (generate_duty_day_pdf).
THEOREM PaperCompleteHolds ==
  ASSUME OneThread
  PROVE  Spec => []PaperComplete
<1>1. ASSUME SInv, NEW d \in DayIds, Live(d)
      PROVE  /\ Paper(d).approver # Blank <=> status[d] = "APPROVED"
             /\ status[d] \in UnderReview =>
                  /\ Paper(d).maker = "submitted"
                  /\ \A s \in sections[d] : Paper(d).tables[s] \notin {{}, {Unassigned}}
  <2>1. TypeOK /\ Orderly /\ SignatureChain
    BY <1>1 DEF SInv, IInv
  <2>2. Paper(d).approver # Blank <=> "approved" \in signed[d]
    BY DEF Paper, Document, Blank
  <2>3. ASSUME status[d] \in UnderReview
        PROVE  Paper(d).maker = "submitted"
    <3>1. "submitted" \in signed[d]
      BY <2>1, <2>3 DEF SignatureChain, UnderReview
    <3> QED
      BY <3>1 DEF Paper, Document
  <2>4. ASSUME status[d] \in UnderReview, NEW s \in sections[d]
        PROVE  Paper(d).tables[s] \notin {{}, {Unassigned}}
    <3>1. s \in Stages /\ Staffed(d, s)
      BY <2>1, <2>4 DEF Orderly, TypeOK
    <3>2. Paper(d).tables[s] = Lines(Rows(d, s), crew)
      BY DEF Paper, Document
    <3> QED
      BY <3>1, <3>2, StaffedIsPrinted
  <2> QED
    BY <2>1, <2>2, <2>3, <2>4 DEF Orderly
<1>2. SInv => PaperComplete
  BY <1>1 DEF PaperComplete
<1> QED
  BY <1>2, SInvHolds, PTL
=============================================================================
