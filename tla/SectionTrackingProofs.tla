------------------------ MODULE SectionTrackingProofs ------------------------
(***************************************************************************)
(* What SectionTracking guarantees for any number of sections, employees,  *)
(* requests and lost calls.  The inductive invariant IInv joins the types, *)
(* what the requests under way rely on (InFlight), the single active duty  *)
(* and the dependence of the duties on the check-ins; each action is shown *)
(* to preserve it, conjunct by conjunct.                                   *)
(***************************************************************************)
EXTENDS SectionTracking, TLAPS

IInv == TypeOK /\ InFlight /\ OneActiveDuty /\ DutiesFollowCheckIns

\* A busy request holds a section and an employee; the next one differs from it only for
\* the thread that moves.
LEMMA BusyHolds ==
  ASSUME TypeOK, NEW r \in Requests, req[r].pc # "idle"
  PROVE  /\ req[r] \in [pc : Steps \ {"idle"}, section : Sections, emp : Employees]
         /\ req[r].section \in Sections /\ req[r].emp \in Employees
<1>1. req[r] \in Request
  BY DEF TypeOK
<1>2. req[r] # Idle
  BY DEF Idle
<1> QED
  BY <1>1, <1>2 DEF Request, Idle

\* The initial state satisfies the inductive invariant.
LEMMA IInvInitially == Init => IInv
<1> SUFFICES ASSUME Init PROVE IInv
  OBVIOUS
<1>1. \A s \in Sections : duties[s] = << >> /\ ActiveOf(s) = {}
  BY DEF Init, ActiveOf
<1>2. TypeOK
  <2>1. checkin \in [Sections -> [Employees -> CheckIn]]
    BY DEF Init, CheckIn
  <2>2. duties \in [Sections -> Seq(Duty)] /\ \A s \in Sections : Len(duties[s]) <= MaxDuties
    BY TrackingAssumption DEF Init
  <2>3. req \in [Requests -> Request]
    BY DEF Init, Request, Idle
  <2>4. failures \in 0 .. MaxFailures
    BY TrackingAssumption DEF Init
  <2> QED
    BY <2>1, <2>2, <2>3, <2>4 DEF TypeOK
<1>3. InFlight
  BY DEF Init, InFlight, Backed, Started, Idle
<1>4. OneActiveDuty
  BY <1>1 DEF OneActiveDuty
<1>5. DutiesFollowCheckIns
  BY <1>1 DEF DutiesFollowCheckIns
<1> QED
  BY <1>2, <1>3, <1>4, <1>5 DEF IInv

\* Check-in rows only move forwards: no row started is lost, none outside the crew is
\* started, and no check-out is taken back.
Forward ==
  \A s \in Sections, e \in Employees :
    /\ Started(s, e) => Started(s, e)'
    /\ checkin[s][e] = "closed" => checkin'[s][e] = "closed"
    /\ Started(s, e)' => e \in Crew[s]

LEMMA CrewsAreEmployees == \A s \in Sections : Crew[s] \subseteq Employees
BY TrackingAssumption

\* When rows move forwards and thread r goes on with a memory that they back, every
\* request is backed.
LEMMA StillBacked ==
  ASSUME IInv, Forward, NEW r \in Requests, NEW m,
         req' = [req EXCEPT ![r] = m], Backed(m)'
  PROVE  InFlight'
<1>1. \A s \in Sections, e \in Employees : Started(s, e)' => e \in Crew[s]
  BY DEF Forward
<1>2. ASSUME NEW q \in Requests PROVE Backed(req[q])'
  <2>1. CASE q = r
    BY <2>1 DEF IInv, TypeOK
  <2>2. CASE q # r
    <3>1. req'[q] = req[q] /\ Backed(req[q])
      BY <2>2 DEF IInv, TypeOK, InFlight
    <3>2. CASE req[q].pc = "idle"
      BY <3>1, <3>2 DEF Backed
    <3>3. CASE req[q].pc # "idle"
      <4>1. req[q].section \in Sections /\ req[q].emp \in Employees
        BY <3>3, BusyHolds DEF IInv
      <4> QED
        BY <3>1, <4>1, CrewsAreEmployees DEF Backed, Forward
    <3> QED
      BY <3>2, <3>3
  <2> QED
    BY <2>1, <2>2
<1> QED
  BY <1>1, <1>2 DEF InFlight

\* When rows move forwards and the duties stay, what relates them stays.
LEMMA DutiesStay ==
  ASSUME IInv, Forward, duties' = duties
  PROVE  OneActiveDuty' /\ DutiesFollowCheckIns'
<1>1. \A s \in Sections : ActiveOf(s)' = ActiveOf(s)
  BY DEF ActiveOf
<1>2. OneActiveDuty'
  BY <1>1 DEF IInv, OneActiveDuty
<1>3. DutiesFollowCheckIns'
  BY CrewsAreEmployees DEF IInv, DutiesFollowCheckIns, Forward
<1> QED
  BY <1>2, <1>3

LEMMA SameRows ==
  ASSUME IInv, checkin' = checkin
  PROVE  Forward
BY DEF IInv, InFlight, Forward, Started

\* The steps of the check-in row preserve the invariant.
LEMMA CheckInStepsSound ==
  ASSUME IInv, NEW s \in Sections, NEW e \in Employees, NEW r \in Requests,
         \/ AddCheckInByHand(s, e) \/ StartDuty(r, s, e) \/ EndDuty(r, s, e)
         \/ SaveCheckIn(r) \/ SaveCheckOut(r)
  PROVE  IInv'
<1> USE DEF IInv
<1>1. CASE AddCheckInByHand(s, e)
  <2>1. TypeOK'
    BY <1>1 DEF AddCheckInByHand, TypeOK, CheckIn
  <2>2. Forward
    BY <1>1 DEF AddCheckInByHand, TypeOK, Forward, Started, InFlight
  <2>3. req' = [req EXCEPT ![r] = req[r]] /\ Backed(req[r])'
    <3>1. req' = [req EXCEPT ![r] = req[r]]
      BY <1>1 DEF AddCheckInByHand, TypeOK
    <3>2. CASE req[r].pc = "idle"
      BY <1>1, <3>1, <3>2 DEF AddCheckInByHand, Backed
    <3>3. CASE req[r].pc # "idle"
      <4>1. req[r].section \in Sections /\ req[r].emp \in Employees /\ Backed(req[r])
        BY <3>3, BusyHolds DEF InFlight
      <4>2. req' = req
        BY <1>1 DEF AddCheckInByHand
      <4> QED
        BY <2>2, <3>1, <4>1, <4>2, CrewsAreEmployees DEF Backed, Forward
    <3> QED
      BY <3>1, <3>2, <3>3
  <2>4. duties' = duties
    BY <1>1 DEF AddCheckInByHand
  <2> QED
    BY <2>1, <2>2, <2>3, <2>4, StillBacked, DutiesStay
<1>2. CASE StartDuty(r, s, e)
  <2>1. PICK m : m = [pc |-> IF checkin[s][e] = "none" THEN "create.check" ELSE "start.save",
                      section |-> s, emp |-> e]
    OBVIOUS
  <2>2. /\ m \in Request /\ m.section = s /\ m.emp = e
        /\ m.pc = IF checkin[s][e] = "none" THEN "create.check" ELSE "start.save"
    BY <2>1 DEF Request, Steps
  <2>3. req' = [req EXCEPT ![r] = m]
    BY <1>2, <2>1 DEF StartDuty
  <2>4. TypeOK'
    <3>1. checkin' \in [Sections -> [Employees -> CheckIn]]
      <4>1. CASE checkin[s][e] = "none"
        <5>1. checkin' = [checkin EXCEPT ![s][e] = "open"]
          BY <1>2, <4>1 DEF StartDuty
        <5> QED
          BY <5>1 DEF TypeOK, CheckIn
      <4>2. CASE checkin[s][e] # "none"
        BY <1>2, <4>2 DEF StartDuty, TypeOK
      <4> QED
        BY <4>1, <4>2
    <3>2. req' \in [Requests -> Request]
      BY <2>2, <2>3 DEF TypeOK
    <3> QED
      BY <1>2, <3>1, <3>2 DEF StartDuty, TypeOK
  <2>5. Forward
    BY <1>2 DEF StartDuty, TypeOK, Forward, Started, InFlight
  <2>6. Backed(m)'
    BY <1>2, <2>2 DEF StartDuty, TypeOK, Backed, Started
  <2>7. duties' = duties
    BY <1>2 DEF StartDuty
  <2> QED
    BY <2>3, <2>4, <2>5, <2>6, <2>7, StillBacked, DutiesStay
<1>3. CASE EndDuty(r, s, e)
  <2>1. PICK m : m = [pc |-> "end.save", section |-> s, emp |-> e]
    OBVIOUS
  <2>2. m \in Request /\ m.section = s /\ m.emp = e /\ m.pc = "end.save"
    BY <2>1 DEF Request, Steps
  <2>3. req' = [req EXCEPT ![r] = m]
    BY <1>3, <2>1 DEF EndDuty
  <2>4. TypeOK'
    BY <1>3, <2>2, <2>3 DEF EndDuty, TypeOK
  <2>5. Forward
    BY <1>3, SameRows DEF EndDuty
  <2>6. Backed(m)'
    BY <1>3, <2>2 DEF EndDuty, Backed, Started, InFlight
  <2>7. duties' = duties
    BY <1>3 DEF EndDuty
  <2> QED
    BY <2>3, <2>4, <2>5, <2>6, <2>7, StillBacked, DutiesStay
<1>4. CASE SaveCheckIn(r)
  <2>0. PICK t, u, m : t = req[r].section /\ u = req[r].emp
                         /\ m = [req[r] EXCEPT !.pc = "create.check"]
    OBVIOUS
  <2>1. t \in Sections /\ u \in Crew[t] /\ u \in Employees
    BY <1>4, <2>0, BusyHolds DEF SaveCheckIn, At, InFlight, Backed
  <2>2. /\ req' = [req EXCEPT ![r] = m] /\ m \in Request
        /\ m.section = t /\ m.emp = u /\ m.pc = "create.check"
    BY <1>4, <2>0, BusyHolds DEF SaveCheckIn, At, Goto, Request, Steps
  <2>3. checkin' = [checkin EXCEPT ![t][u] = IF @ = "closed" THEN @ ELSE "open"]
    BY <1>4, <2>0 DEF SaveCheckIn
  <2>4. TypeOK'
    <3>1. checkin' \in [Sections -> [Employees -> CheckIn]]
      BY <2>1, <2>3 DEF TypeOK, CheckIn
    <3>2. req' \in [Requests -> Request]
      BY <2>2 DEF TypeOK
    <3> QED
      BY <1>4, <3>1, <3>2 DEF SaveCheckIn, TypeOK
  <2>5. Forward
    BY <2>1, <2>3 DEF TypeOK, Forward, Started, InFlight
  <2>6. Backed(m)'
    BY <2>1, <2>2, <2>3 DEF TypeOK, Backed, Started
  <2>7. duties' = duties
    BY <1>4 DEF SaveCheckIn
  <2> QED
    BY <2>2, <2>4, <2>5, <2>6, <2>7, StillBacked, DutiesStay
<1>5. CASE SaveCheckOut(r)
  <2>0. PICK t, u, m : t = req[r].section /\ u = req[r].emp
                         /\ m = [req[r] EXCEPT !.pc = "stop"]
    OBVIOUS
  <2>1. t \in Sections /\ u \in Crew[t] /\ u \in Employees
    BY <1>5, <2>0, BusyHolds DEF SaveCheckOut, At, InFlight, Backed
  <2>2. /\ req' = [req EXCEPT ![r] = m] /\ m \in Request
        /\ m.section = t /\ m.emp = u /\ m.pc = "stop"
    BY <1>5, <2>0, BusyHolds DEF SaveCheckOut, At, Goto, Request, Steps
  <2>3. checkin' = [checkin EXCEPT ![t][u] = "closed"]
    BY <1>5, <2>0 DEF SaveCheckOut
  <2>4. TypeOK'
    <3>1. checkin' \in [Sections -> [Employees -> CheckIn]]
      BY <2>1, <2>3 DEF TypeOK, CheckIn
    <3>2. req' \in [Requests -> Request]
      BY <2>2 DEF TypeOK
    <3> QED
      BY <1>5, <3>1, <3>2 DEF SaveCheckOut, TypeOK
  <2>5. Forward
    BY <2>1, <2>3 DEF TypeOK, Forward, Started, InFlight
  <2>6. Backed(m)'
    BY <2>1, <2>2, <2>3 DEF TypeOK, Backed, Started
  <2>7. duties' = duties
    BY <1>5 DEF SaveCheckOut
  <2> QED
    BY <2>2, <2>4, <2>5, <2>6, <2>7, StillBacked, DutiesStay
<1> QED
  BY <1>1, <1>2, <1>3, <1>4, <1>5

\* What InsertDuty makes of the duties of a section.
LEMMA OneMoreDuty ==
  ASSUME TypeOK, NEW s \in Sections, NEW s0 \in Sections, ~ Tracked(s0),
         duties' = [duties EXCEPT ![s0] = Append(@, "active")]
  PROVE  /\ s = s0 => ActiveOf(s)' = {Len(duties[s]) + 1} /\ duties'[s] # << >>
         /\ s # s0 => ActiveOf(s)' = ActiveOf(s) /\ duties'[s] = duties[s]
         /\ (\E i \in 1 .. Len(duties'[s]) : duties'[s][i] = "stopped") =>
              \E i \in 1 .. Len(duties[s]) : duties[s][i] = "stopped"
<1>1. duties[s] \in Seq(Duty) /\ Len(duties[s]) \in Nat
  BY DEF TypeOK
<1>2. CASE s = s0
  <2>1. duties'[s] = Append(duties[s], "active")
    BY <1>2 DEF TypeOK
  <2>2. /\ Len(duties'[s]) = Len(duties[s]) + 1
        /\ \A i \in 1 .. Len(duties[s]) : duties'[s][i] = duties[s][i]
        /\ duties'[s][Len(duties[s]) + 1] = "active"
    BY <1>1, <2>1
  <2>3. \A i \in 1 .. Len(duties[s]) : duties[s][i] # "active"
    BY <1>2 DEF Tracked, ActiveOf
  <2>4. ActiveOf(s)' = {Len(duties[s]) + 1}
    BY <1>1, <2>2, <2>3 DEF ActiveOf
  <2> QED
    BY <1>1, <1>2, <2>2, <2>4
<1>3. CASE s # s0
  <2>1. duties'[s] = duties[s]
    BY <1>3 DEF TypeOK
  <2> QED
    BY <1>3, <2>1 DEF ActiveOf
<1> QED
  BY <1>2, <1>3

\* The steps of a call to the location service preserve the invariant.
LEMMA ServiceStepsSound ==
  ASSUME IInv, NEW r \in Requests, NEW s0 \in Sections,
         \/ LookAtMap(r, s0) \/ FindActive(r) \/ InsertDuty(r) \/ StopDuty(r) \/ CutShort(r)
  PROVE  IInv'
<1> USE DEF IInv
<1>1. Forward
  BY SameRows DEF LookAtMap, FindActive, InsertDuty, StopDuty, CutShort
<1>2. PICK t, u, m0 : t = req[r].section /\ u = req[r].emp /\ m0 = req[r]
  OBVIOUS
<1>3. Idle \in Request /\ Backed(Idle)'
  BY DEF Idle, Request, Backed
<1>4. Done(r) => req' = [req EXCEPT ![r] = Idle] /\ req' \in [Requests -> Request] /\ InFlight'
  <2> SUFFICES ASSUME Done(r)
               PROVE  req' = [req EXCEPT ![r] = Idle] /\ req' \in [Requests -> Request] /\ InFlight'
    OBVIOUS
  <2>1. req' = [req EXCEPT ![r] = Idle]
    BY DEF Done
  <2>2. req' \in [Requests -> Request]
    BY <1>3, <2>1 DEF TypeOK
  <2>3. PICK m : m = Idle
    OBVIOUS
  <2>4. req' = [req EXCEPT ![r] = m] /\ Backed(m)'
    BY <1>3, <2>1, <2>3 DEF Idle
  <2>5. InFlight'
    BY <1>1, <2>4, StillBacked
  <2> QED
    BY <2>1, <2>2, <2>5
<1>5. CASE LookAtMap(r, s0)
  <2>1. PICK e \in Employees :
          req' = [req EXCEPT ![r] = [pc |-> "create.check", section |-> s0, emp |-> e]]
    BY <1>5 DEF LookAtMap
  <2>2. PICK m : m = [pc |-> "create.check", section |-> s0, emp |-> e]
    OBVIOUS
  <2>3. m \in Request /\ m.pc = "create.check" /\ m.section = s0
    BY <2>2 DEF Request, Steps
  <2>4. req' = [req EXCEPT ![r] = m] /\ req' \in [Requests -> Request]
    BY <2>1, <2>2, <2>3 DEF TypeOK
  <2>5. Backed(m)'
    BY <1>5, <2>3 DEF Backed, LookAtMap
  <2>6. failures' \in 0 .. MaxFailures
    BY <1>5, TrackingAssumption DEF LookAtMap, Fail, TypeOK
  <2>7. TypeOK'
    BY <1>5, <2>4, <2>6 DEF LookAtMap, TypeOK
  <2>8. InFlight'
    BY <1>1, <2>4, <2>5, StillBacked
  <2> QED
    BY <1>1, <1>5, <2>7, <2>8, DutiesStay DEF LookAtMap
<1>6. CASE FindActive(r)
  <2>1. CASE Tracked(req[r].section)
    <3>1. Done(r) /\ UNCHANGED <<checkin, duties, failures>>
      BY <1>6, <2>1 DEF FindActive
    <3>2. TypeOK'
      BY <1>4, <3>1 DEF TypeOK
    <3> QED
      BY <1>1, <1>4, <3>1, <3>2, DutiesStay
  <2>2. CASE ~ Tracked(req[r].section)
    <3>1. PICK m : m = [req[r] EXCEPT !.pc = "create.insert"]
      OBVIOUS
    <3>2. /\ req[r].pc = "create.check"
          /\ req[r] \in [pc : Steps \ {"idle"}, section : Sections, emp : Employees]
          /\ req[r].section \in Sections
      BY <1>6, BusyHolds DEF FindActive, At
    <3>3. m \in Request /\ m.pc = "create.insert" /\ m.section = req[r].section
      BY <3>1, <3>2 DEF Request, Steps
    <3>4. /\ req' = [req EXCEPT ![r] = m] /\ req' \in [Requests -> Request]
          /\ UNCHANGED <<checkin, duties, failures>>
      BY <1>6, <2>2, <3>1, <3>3 DEF FindActive, Goto, TypeOK
    <3>5. Backed(m)'
      BY <3>2, <3>3, <3>4 DEF Backed, InFlight, Started
    <3>6. TypeOK'
      BY <3>4 DEF TypeOK
    <3>7. InFlight'
      BY <1>1, <3>4, <3>5, StillBacked
    <3> QED
      BY <1>1, <3>4, <3>6, <3>7, DutiesStay
  <2> QED
    BY <2>1, <2>2
<1>7. CASE InsertDuty(r)
  <2>1. /\ req[r].pc = "create.insert" /\ t \in Sections /\ Done(r)
        /\ UNCHANGED <<checkin, failures>>
    BY <1>2, <1>7, BusyHolds DEF InsertDuty, At
  <2>2. CASE t \in Located /\ ~ Tracked(t)
    <3>1. duties' = [duties EXCEPT ![t] = Append(@, "active")] /\ Len(duties[t]) < MaxDuties
      BY <1>2, <1>7, <2>2 DEF InsertDuty
    <3>2. /\ Append(duties[t], "active") \in Seq(Duty)
          /\ Len(Append(duties[t], "active")) <= MaxDuties
      <4>1. duties[t] \in Seq(Duty) /\ "active" \in Duty
        BY <2>1 DEF TypeOK, Duty
      <4>2. /\ Append(duties[t], "active") \in Seq(Duty)
            /\ Len(Append(duties[t], "active")) = Len(duties[t]) + 1
            /\ Len(duties[t]) \in Nat
        BY <4>1
      <4> QED
        BY <3>1, <4>2, TrackingAssumption
    <3>3. TypeOK'
      BY <1>4, <2>1, <3>1, <3>2 DEF TypeOK
    <3>4. OneActiveDuty'
      <4> SUFFICES ASSUME NEW s \in Sections, NEW i \in ActiveOf(s)', NEW j \in ActiveOf(s)'
                   PROVE  i = j
        BY DEF OneActiveDuty
      <4>1. /\ s = t => ActiveOf(s)' = {Len(duties[s]) + 1}
            /\ s # t => ActiveOf(s)' = ActiveOf(s)
        BY <2>1, <2>2, <3>1, OneMoreDuty
      <4> QED
        BY <4>1 DEF OneActiveDuty
    <3>5. DutiesFollowCheckIns'
      <4> SUFFICES ASSUME NEW s \in Sections
                   PROVE  /\ s \notin Viewed /\ duties'[s] # << >> =>
                               \E e \in Crew[s] : Started(s, e)'
                          /\ (\E i \in 1 .. Len(duties'[s]) : duties'[s][i] = "stopped") =>
                               \E e \in Crew[s] : checkin'[s][e] = "closed"
        BY DEF DutiesFollowCheckIns
      <4>1. \A e : Started(s, e)' <=> Started(s, e)
        BY <2>1 DEF Started
      <4>2. s = t /\ s \notin Viewed => \E e \in Crew[s] : Started(s, e)
        BY <1>2, <2>1 DEF InFlight, Backed
      <4>3. s # t => duties'[s] = duties[s]
        BY <2>1, <3>1 DEF TypeOK
      <4>4. (\E i \in 1 .. Len(duties'[s]) : duties'[s][i] = "stopped") =>
              \E i \in 1 .. Len(duties[s]) : duties[s][i] = "stopped"
        BY <2>1, <2>2, <3>1, OneMoreDuty
      <4> QED
        BY <2>1, <4>1, <4>2, <4>3, <4>4 DEF DutiesFollowCheckIns
    <3> QED
      BY <1>4, <2>1, <3>3, <3>4, <3>5
  <2>3. CASE ~ (t \in Located /\ ~ Tracked(t))
    <3>1. duties' = duties
      BY <1>2, <1>7, <2>3 DEF InsertDuty
    <3>2. TypeOK'
      BY <1>4, <2>1, <3>1 DEF TypeOK
    <3> QED
      BY <1>1, <1>4, <2>1, <3>1, <3>2, DutiesStay
  <2> QED
    BY <2>2, <2>3
<1>8. CASE StopDuty(r)
  <2>1. /\ req[r].pc = "stop" /\ t \in Sections /\ Done(r)
        /\ UNCHANGED <<checkin, failures>>
        /\ u \in Crew[t] /\ checkin[t][u] = "closed"
    BY <1>2, <1>8, BusyHolds DEF StopDuty, At, InFlight, Backed
  <2>2. duties' = [duties EXCEPT ![t] = [i \in 1 .. Len(@) |-> "stopped"]]
    BY <1>2, <1>8 DEF StopDuty
  <2>3. PICK q : q = [i \in 1 .. Len(duties[t]) |-> "stopped"]
    OBVIOUS
  <2>4. q \in Seq(Duty) /\ Len(q) = Len(duties[t]) /\ \A i \in 1 .. Len(q) : q[i] = "stopped"
    <3>1. Len(duties[t]) \in Nat
      BY <2>1 DEF TypeOK
    <3>2. q \in [1 .. Len(duties[t]) -> Duty]
      BY <2>3 DEF Duty
    <3>3. q \in Seq(Duty) /\ Len(q) = Len(duties[t])
      BY <3>1, <3>2
    <3> QED
      BY <2>3, <3>1, <3>3
  <2>5. duties' = [duties EXCEPT ![t] = q]
    BY <2>2, <2>3
  <2>6. TypeOK'
    BY <1>4, <2>1, <2>4, <2>5 DEF TypeOK
  <2>7. \A s \in Sections : duties'[s] = IF s = t THEN q ELSE duties[s]
    BY <2>5 DEF TypeOK
  <2>8. OneActiveDuty'
    BY <2>4, <2>7 DEF OneActiveDuty, ActiveOf
  <2>9. DutiesFollowCheckIns'
    BY <2>1, <2>7, CrewsAreEmployees DEF DutiesFollowCheckIns, Started
  <2> QED
    BY <1>4, <2>1, <2>6, <2>8, <2>9
<1>9. CASE CutShort(r)
  <2>1. Done(r) /\ UNCHANGED <<checkin, duties>> /\ failures' \in 0 .. MaxFailures
    BY <1>9, TrackingAssumption DEF CutShort, Fail, TypeOK
  <2>2. TypeOK'
    BY <1>4, <2>1 DEF TypeOK
  <2> QED
    BY <1>1, <1>4, <2>1, <2>2, DutiesStay
<1> QED
  BY <1>5, <1>6, <1>7, <1>8, <1>9

\* Every step preserves the inductive invariant.
LEMMA IInvPreserved == IInv /\ [Next]_vars => IInv'
<1> SUFFICES ASSUME IInv, [Next]_vars PROVE IInv'
  OBVIOUS
<1>1. CASE UNCHANGED vars
  <2>1. TypeOK'
    BY <1>1 DEF IInv, vars, TypeOK
  <2>2. InFlight'
    BY <1>1 DEF IInv, vars, InFlight, Backed, Started
  <2>3. Forward
    BY <1>1, SameRows DEF vars
  <2> QED
    BY <1>1, <2>1, <2>2, <2>3, DutiesStay DEF IInv, vars
<1>2. ASSUME NEW s \in Sections, NEW e \in Employees, AddCheckInByHand(s, e) PROVE IInv'
  <2>1. TypeOK'
    BY <1>2 DEF IInv, AddCheckInByHand, TypeOK, CheckIn
  <2>2. Forward
    BY <1>2 DEF IInv, AddCheckInByHand, TypeOK, Forward, Started, InFlight
  <2>3. ASSUME NEW r \in Requests PROVE InFlight'
    BY <1>2, <2>3, CheckInStepsSound DEF IInv
  <2>4. (Requests = {}) => InFlight'
    BY <2>2 DEF InFlight, Forward
  <2> QED
    BY <1>2, <2>1, <2>2, <2>3, <2>4, DutiesStay DEF IInv, AddCheckInByHand
<1>3. ASSUME NEW r \in Requests, NEW s \in Sections, NEW e \in Employees,
             StartDuty(r, s, e) \/ EndDuty(r, s, e)
      PROVE  IInv'
  BY <1>3, CheckInStepsSound
<1>4. ASSUME NEW r \in Requests, NEW s \in Sections, LookAtMap(r, s) PROVE IInv'
  BY <1>4, ServiceStepsSound
<1>5. ASSUME NEW r \in Requests, SaveCheckIn(r) \/ SaveCheckOut(r) PROVE IInv'
  <2>1. req[r].section \in Sections /\ req[r].emp \in Employees
    BY <1>5, BusyHolds DEF IInv, SaveCheckIn, SaveCheckOut, At
  <2> QED
    BY <1>5, <2>1, CheckInStepsSound
<1>6. ASSUME NEW r \in Requests, FindActive(r) \/ InsertDuty(r) \/ StopDuty(r) \/ CutShort(r)
      PROVE  IInv'
  <2>1. req[r].section \in Sections
    BY <1>6, BusyHolds DEF IInv, FindActive, InsertDuty, StopDuty, CutShort, At
  <2> QED
    BY <1>6, <2>1, ServiceStepsSound
<1> QED
  BY <1>1, <1>2, <1>3, <1>4, <1>5, <1>6 DEF Next

LEMMA IInvHolds == Spec => []IInv
BY IInvInitially, IInvPreserved, PTL DEF Spec

\* Every reachable state is well typed: check-ins, duties, requests (TypeOK).
THEOREM TypeCorrect == Spec => []TypeOK
BY IInvHolds, PTL DEF IInv

\* The location service never tracks a section twice (OneActiveDuty), for any number of
\* tablets and maps that call DutyCreate at once.
THEOREM OneActiveDutyHolds == Spec => []OneActiveDuty
BY IInvHolds, PTL DEF IInv

\* Duties follow the check-ins the database holds (DutiesFollowCheckIns).
THEOREM DutiesFollowCheckInsHolds == Spec => []DutiesFollowCheckIns
BY IInvHolds, PTL DEF IInv

\* Without a live map, only a section somebody has started is tracked: the map is the one
\* way around the check-in (OnlyStartedIsTracked).
THEOREM OnlyTheMapTracksUnstarted ==
  ASSUME Viewed = {} PROVE Spec => []OnlyStartedIsTracked
<1>1. IInv => OnlyStartedIsTracked
  BY DEF IInv, DutiesFollowCheckIns, OnlyStartedIsTracked, Tracked, ActiveOf, TypeOK
<1> QED
  BY <1>1, IInvHolds, PTL

\* A check-out is never taken back, whichever start is saved after it (CheckOutFinal).
THEOREM CheckOutFinalHolds == Spec => CheckOutFinal
<1> DEFINE Kept == \A s \in Sections, e \in Employees :
                     checkin[s][e] = "closed" => checkin'[s][e] = "closed"
<1>1. ASSUME IInv, [Next]_vars, NEW s \in Sections, NEW e \in Employees,
             checkin[s][e] = "closed"
      PROVE  checkin'[s][e] = "closed"
  <2>1. CASE UNCHANGED vars
    BY <1>1, <2>1 DEF vars
  <2>2. ASSUME NEW t \in Sections, NEW u \in Employees, AddCheckInByHand(t, u)
        PROVE  checkin'[s][e] = "closed"
    BY <1>1, <2>2 DEF AddCheckInByHand, IInv, TypeOK
  <2>3. ASSUME NEW r \in Requests, NEW t \in Sections, NEW u \in Employees,
               StartDuty(r, t, u) \/ EndDuty(r, t, u)
        PROVE  checkin'[s][e] = "closed"
    <3>1. \/ checkin' = checkin
          \/ checkin' = [checkin EXCEPT ![t][u] = "open"] /\ checkin[t][u] = "none"
      BY <2>3 DEF StartDuty, EndDuty
    <3> QED
      BY <1>1, <3>1 DEF IInv, TypeOK
  <2>4. ASSUME NEW r \in Requests, SaveCheckIn(r) \/ SaveCheckOut(r)
        PROVE  checkin'[s][e] = "closed"
    <3>1. req[r].section \in Sections /\ req[r].emp \in Employees
      BY <1>1, <2>4, BusyHolds DEF IInv, SaveCheckIn, SaveCheckOut, At
    <3>2. CASE SaveCheckIn(r)
      BY <1>1, <3>1, <3>2 DEF SaveCheckIn, IInv, TypeOK
    <3>3. CASE SaveCheckOut(r)
      BY <1>1, <3>1, <3>3 DEF SaveCheckOut, IInv, TypeOK
    <3> QED
      BY <2>4, <3>2, <3>3
  <2>5. ASSUME NEW r \in Requests,
               \/ \E t \in Sections : LookAtMap(r, t)
               \/ FindActive(r) \/ InsertDuty(r) \/ StopDuty(r) \/ CutShort(r)
        PROVE  checkin'[s][e] = "closed"
    BY <1>1, <2>5 DEF LookAtMap, FindActive, InsertDuty, StopDuty, CutShort
  <2> QED
    BY <1>1, <2>1, <2>2, <2>3, <2>4, <2>5 DEF Next
<1>2. IInv /\ [Next]_vars => [Kept]_vars
  BY <1>1
<1> QED
  BY <1>2, IInvHolds, PTL DEF Spec, CheckOutFinal

\* A start whose call got through leaves the section tracked (StartLeavesTracked).
THEOREM StartLeavesTrackedHolds == Spec => StartLeavesTracked
<1> DEFINE Ends(r, s) == /\ req[r].pc \in {"create.check", "create.insert"}
                         /\ req'[r].pc = "idle"
                         /\ req[r].section = s
                         /\ failures' = failures
           Leaves == \A r \in Requests, s \in Located :
                       (/\ req[r].pc \in {"create.check", "create.insert"} /\ req'[r].pc = "idle"
                        /\ req[r].section = s
                        /\ failures' = failures) => Tracked(s)'
<1>1. ASSUME IInv, [Next]_vars, NEW r \in Requests, NEW s \in Located, Ends(r, s)
      PROVE  Tracked(s)'
  <2>1. s \in Sections /\ TypeOK
    BY <1>1, TrackingAssumption DEF IInv
  <2>3. ASSUME NEW q \in Requests, Done(q)
        PROVE  q = r
    BY <1>1, <2>1, <2>3 DEF Done, TypeOK
  <2>4. req' # req
    BY <1>1
  <2>5. ASSUME NEW q \in Requests, FindActive(q)
        PROVE  Tracked(s)'
    <3>1. CASE Tracked(req[q].section)
      <4>1. q = r /\ duties' = duties
        BY <2>3, <2>5, <3>1 DEF FindActive
      <4> QED
        BY <1>1, <3>1, <4>1 DEF Tracked, ActiveOf
    <3>2. CASE ~ Tracked(req[q].section)
      <4>1. req' = [req EXCEPT ![q].pc = "create.insert"]
        BY <2>5, <3>2 DEF FindActive, Goto
      <4> QED
        BY <1>1, <2>1, <4>1, <2>5, BusyHolds DEF TypeOK, FindActive, At
    <3> QED
      BY <3>1, <3>2
  <2>6. ASSUME NEW q \in Requests, InsertDuty(q)
        PROVE  Tracked(s)'
    <3>1. q = r
      BY <2>3, <2>6 DEF InsertDuty
    <3>2. CASE Tracked(s)
      <4>1. duties' = duties
        BY <1>1, <2>6, <3>1, <3>2 DEF InsertDuty
      <4> QED
        BY <3>2, <4>1 DEF Tracked, ActiveOf
    <3>3. CASE ~ Tracked(s)
      <4>1. duties' = [duties EXCEPT ![s] = Append(@, "active")]
        BY <1>1, <2>6, <3>1, <3>3 DEF InsertDuty
      <4>2. ActiveOf(s)' = {Len(duties[s]) + 1}
        BY <2>1, <3>3, <4>1, OneMoreDuty
      <4> QED
        BY <4>2 DEF Tracked
    <3> QED
      BY <3>2, <3>3
  <2>7. ASSUME NEW q \in Requests, StopDuty(q) \/ CutShort(q)
        PROVE  FALSE
    <3>1. q = r
      BY <2>3, <2>7 DEF StopDuty, CutShort
    <3>2. CASE StopDuty(q)
      BY <1>1, <3>1, <3>2 DEF StopDuty, At
    <3>3. CASE CutShort(q)
      BY <1>1, <2>1, <3>3, TrackingAssumption DEF CutShort, Fail, TypeOK
    <3> QED
      BY <2>7, <3>2, <3>3
  <2>8. ASSUME NEW q \in Requests, SaveCheckIn(q) \/ SaveCheckOut(q)
        PROVE  FALSE
    <3>1. /\ req[q] \in [pc : Steps \ {"idle"}, section : Sections, emp : Employees]
          /\ req[q].pc \in {"start.save", "end.save"}
      BY <2>1, <2>8, BusyHolds DEF SaveCheckIn, SaveCheckOut, At
    <3> QED
      BY <1>1, <2>1, <2>8, <3>1 DEF SaveCheckIn, SaveCheckOut, Goto, TypeOK
  <2>9. ASSUME NEW q \in Requests, NEW t \in Sections, NEW e \in Employees,
               StartDuty(q, t, e) \/ EndDuty(q, t, e)
        PROVE  FALSE
    <3>1. req[q].pc = "idle"
      BY <2>9 DEF StartDuty, EndDuty, At
    <3> QED
      BY <1>1, <2>1, <2>9, <3>1 DEF StartDuty, EndDuty, TypeOK
  <2>10. ASSUME NEW q \in Requests, NEW t \in Sections, LookAtMap(q, t)
         PROVE  FALSE
    <3>1. req[q].pc = "idle"
      BY <2>10 DEF LookAtMap, At
    <3> QED
      BY <1>1, <2>1, <2>10, <3>1 DEF LookAtMap, TypeOK
  <2>11. ~ UNCHANGED vars /\ \A t \in Sections, e \in Employees : ~ AddCheckInByHand(t, e)
    BY <2>4 DEF vars, AddCheckInByHand
  <2> QED
    BY <1>1, <2>5, <2>6, <2>7, <2>8, <2>9, <2>10, <2>11 DEF Next
<1>2. IInv /\ [Next]_vars => [Leaves]_vars
  BY <1>1
<1> QED
  BY <1>2, IInvHolds, PTL DEF Spec, StartLeavesTracked
=============================================================================
