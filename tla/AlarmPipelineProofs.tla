-------------------------- MODULE AlarmPipelineProofs --------------------------
(***************************************************************************)
(* Theorems about AlarmPipeline, for every set of sections, listeners,     *)
(* incidents and administrators, every size of the buffers and of the      *)
(* worker, and every number of alarms and failures.                        *)
(***************************************************************************)
EXTENDS AlarmPipeline, SequenceTheorems, TLAPS

USE PipelineAssumption

\* A listener has an alarm in hand exactly as long as it handles it.
InHand == \A l \in Listeners : pc[l] \in Handling => cur[l] \in Events

\* What a listener pushes is logged: the row is written before the first push.
PushedAfterLog ==
  \A l \in Listeners : pc[l] \in {"district", "all"} => cur[l] \in RangeOf(log[l])

-----------------------------------------------------------------------------
(* Sequences of alarms.                                                              *)

\* What LoggedInOrder asks of a line: no alarm twice and none after one that was raised when
\* it had reached everybody (x is earlier), all of them raised, for section s.
InOrder(q, x) == \A m, n \in 1 .. Len(q) : m < n => q[m] # q[n] /\ q[n] \notin x[q[m]]
RaisedFor(q, r, s) == \A e \in RangeOf(q) : e <= Len(r) /\ r[e] = s

\* The alarm listener l is about to log.
Held(l) == IF pc[l] = "log" THEN <<cur[l]>> ELSE << >>

\* What is appended to a log is in it, and nothing leaves it.
LEMMA RangeOfAppend ==
  ASSUME NEW q \in Seq(Events), NEW e \in Events
  PROVE  RangeOf(Append(q, e)) = RangeOf(q) \cup {e}
<1> QED
  BY AppendProperties DEF RangeOf

\* The parts of a line are sequences of alarms, and so is the line.
LEMMA LineIsSeq ==
  ASSUME TypeOK, InHand, NEW l \in Listeners
  PROVE  /\ log[l] \in Seq(Events) /\ wire[l] \in Seq(Events) /\ chan[l] \in Seq(Events)
         /\ Held(l) \in Seq(Events) /\ Line(l) \in Seq(Events)
         /\ Line(l) = ((log[l] \o Held(l)) \o wire[l]) \o chan[l]
<1>1. Held(l) \in Seq(Events)
  <2>1. CASE pc[l] = "log"
    <3>1. cur[l] \in Events
      BY <2>1 DEF InHand, Handling
    <3> QED
      BY <2>1, <3>1 DEF Held
  <2>2. CASE pc[l] # "log"
    BY <2>2 DEF Held
  <2> QED
    BY <2>1, <2>2
<1>2. log[l] \in Seq(Events) /\ wire[l] \in Seq(Events) /\ chan[l] \in Seq(Events)
  BY DEF TypeOK
<1>3. Line(l) = ((log[l] \o Held(l)) \o wire[l]) \o chan[l]
  BY Zenon DEF Line, Held
<1>4. /\ log[l] \o Held(l) \in Seq(Events)
      /\ (log[l] \o Held(l)) \o wire[l] \in Seq(Events)
      /\ ((log[l] \o Held(l)) \o wire[l]) \o chan[l] \in Seq(Events)
  BY <1>1, <1>2, ConcatProperties
<1> QED
  BY <1>1, <1>2, <1>3, <1>4

\* A line and its four parts, as values.
LEMMA LineParts ==
  ASSUME TypeOK, InHand, NEW l \in Listeners
  PROVE  \E p, q, r, t \in Seq(Events) :
           /\ log[l] = p /\ Held(l) = q /\ wire[l] = r /\ chan[l] = t
           /\ Line(l) = ((p \o q) \o r) \o t
<1>1. /\ log[l] \in Seq(Events) /\ wire[l] \in Seq(Events) /\ chan[l] \in Seq(Events)
      /\ Held(l) \in Seq(Events)
      /\ Line(l) = ((log[l] \o Held(l)) \o wire[l]) \o chan[l]
  BY LineIsSeq
<1> USE <1>1
<1> WITNESS log[l] \in Seq(Events), Held(l) \in Seq(Events), wire[l] \in Seq(Events),
            chan[l] \in Seq(Events)
<1> QED
  OBVIOUS

\* The first element of the second of two sequences goes to the end of the first.
LEMMA MoveHead ==
  ASSUME NEW S, NEW p \in Seq(S), NEW q \in Seq(S), q # << >>
  PROVE  p \o q = Append(p, Head(q)) \o Tail(q)
<1> DEFINE lhs == p \o q
           rhs == Append(p, Head(q)) \o Tail(q)
<1>1. Head(q) \in S /\ Tail(q) \in Seq(S) /\ Len(Tail(q)) = Len(q) - 1 /\ Len(q) \in Nat \ {0}
      /\ Len(p) \in Nat /\ Head(q) = q[1] /\ \A i \in 1 .. Len(Tail(q)) : Tail(q)[i] = q[i + 1]
  BY HeadTailProperties, LenProperties, EmptySeq
<1>2. Append(p, Head(q)) \in Seq(S) /\ Len(Append(p, Head(q))) = Len(p) + 1
      /\ Append(p, Head(q))[Len(p) + 1] = Head(q)
      /\ \A i \in 1 .. Len(p) : Append(p, Head(q))[i] = p[i]
  BY <1>1, AppendProperties
<1>3. lhs \in Seq(S) /\ rhs \in Seq(S) /\ Len(lhs) = Len(rhs)
  BY <1>1, <1>2, ConcatProperties
<1>4. ASSUME NEW i \in 1 .. Len(lhs)
      PROVE  lhs[i] = rhs[i]
  BY <1>1, <1>2
<1> QED
  BY <1>3, <1>4, SeqEqual

\* The last two of four sequences taken together.
LEMMA Regroup ==
  \A p, q, r, t \in Seq(Events) : ((p \o q) \o r) \o t = (p \o q) \o (r \o t)
  OBVIOUS

\* A beginning of a line is a line.
LEMMA Beginning ==
  ASSUME NEW p \in Seq(Events), NEW q \in Seq(Events), NEW r, NEW s, NEW x,
         InOrder(p \o q, x), RaisedFor(p \o q, r, s)
  PROVE  InOrder(p, x) /\ RaisedFor(p, r, s) /\ RangeOf(p) \subseteq RangeOf(p \o q)
<1>1. Len(p \o q) = Len(p) + Len(q) /\ Len(p) \in Nat /\ Len(q) \in Nat
      /\ \A i \in 1 .. Len(p) : (p \o q)[i] = p[i]
  BY ConcatProperties, LenProperties
<1>2. \A i \in 1 .. Len(p) : i \in 1 .. Len(p \o q)
  BY <1>1
<1>3. InOrder(p, x)
  BY <1>1, <1>2 DEF InOrder
<1>4. RangeOf(p) \subseteq RangeOf(p \o q)
  BY <1>1, <1>2 DEF RangeOf
<1> QED
  BY <1>3, <1>4 DEF RaisedFor

\* An alarm that is not on a line, and had not reached everybody when one on it was raised,
\* goes to its end.
LEMMA NextAlarm ==
  ASSUME NEW q \in Seq(Events), NEW e \in Events, NEW x, InOrder(q, x), e \notin RangeOf(q),
         \A d \in RangeOf(q) : e \notin x[d]
  PROVE  InOrder(Append(q, e), x)
<1> DEFINE n == Append(q, e)
<1>1. /\ Len(n) = Len(q) + 1 /\ Len(q) \in Nat
      /\ n[Len(q) + 1] = e /\ \A i \in 1 .. Len(q) : n[i] = q[i]
  BY AppendProperties, LenProperties
<1>2. \A i \in 1 .. Len(q) : q[i] # e /\ e \notin x[q[i]]
  BY DEF RangeOf
<1> SUFFICES ASSUME NEW i \in 1 .. Len(n), NEW j \in 1 .. Len(n), i < j
             PROVE  n[i] # n[j] /\ n[j] \notin x[n[i]]
  BY DEF InOrder
<1>3. i \in 1 .. Len(q) /\ (j \in 1 .. Len(q) \/ j = Len(q) + 1)
  BY <1>1, SMTT(30)
<1> QED
  BY <1>1, <1>2, <1>3 DEF InOrder

-----------------------------------------------------------------------------
(* Type correctness.                                                                 *)

\* The first state is well typed.
LEMMA TypeInit == Init => TypeOK /\ InHand /\ PushedAfterLog
  BY DEF Init, TypeOK, InHand, PushedAfterLog, Handling, Tasks, Events

\* Steps of the task queue keep the types and what is known of alarms in hand.
LEMMA TaskQueueStep ==
  ASSUME TypeOK, InHand, PushedAfterLog,
         \/ \E t \in Tasks : Launch(t)
         \/ StartTask
         \/ \E i \in Incidents : Notify(i)
         \/ \E s \in Sections : Withdraw(s)
         \/ \E l \in Listeners : Requeue(l)
  PROVE  TypeOK' /\ InHand' /\ PushedAfterLog'
<1> USE DEF TypeOK, InHand, PushedAfterLog, Handling, Goto, Tasks, streamVars, adminVars, fanVars
<1>1. ASSUME NEW t \in Tasks, Launch(t)
      PROVE  TypeOK' /\ InHand' /\ PushedAfterLog'
  BY <1>1, AppendProperties DEF Launch
<1>2. CASE StartTask
  <2>1. Head(queue) \in Tasks /\ Tail(queue) \in Seq(Tasks)
    BY <1>2, HeadTailProperties DEF StartTask
  <2> QED
    BY <1>2, <2>1 DEF StartTask, Working
<1>3. ASSUME NEW i \in Incidents, Notify(i)
      PROVE  TypeOK' /\ InHand' /\ PushedAfterLog'
  BY <1>3 DEF Notify
<1>4. ASSUME NEW s \in Sections, Withdraw(s)
      PROVE  TypeOK' /\ InHand' /\ PushedAfterLog'
  BY <1>4 DEF Withdraw
<1>5. ASSUME NEW l \in Listeners, Requeue(l)
      PROVE  TypeOK' /\ InHand' /\ PushedAfterLog'
  BY <1>5, AppendProperties DEF Requeue
<1> QED
  BY <1>1, <1>2, <1>3, <1>4, <1>5

StreamsOK ==
  /\ stream \in [Listeners -> {"closed", "opening", "open", "broken"}]
  /\ chan \in [Listeners -> Seq(Events)] /\ \A k \in Listeners : Len(chan[k]) <= Buffer
  /\ wire \in [Listeners -> Seq(Events)] /\ \A k \in Listeners : Len(wire[k]) <= Window

\* A call that is over leaves two empty sequences behind.
LEMMA HangTyped ==
  TypeOK => \A l \in Listeners, state \in {"closed", "broken"} : Hang(l, state) => StreamsOK'
  BY EmptySeq DEF TypeOK, Hang, StreamsOK

\* A push shows one more alarm to some administrators.
LEMMA PushTyped ==
  ASSUME TypeOK, NEW g, NEW e \in Events, Push(g, e)
  PROVE  received' \in [Admins -> SUBSET Events]
  BY DEF TypeOK, Push

\* So do the steps of a listener ...
LEMMA ListenerStep ==
  ASSUME TypeOK, InHand, PushedAfterLog, NEW l \in Listeners, ListenerSteps(l)
  PROVE  TypeOK' /\ InHand' /\ PushedAfterLog'
<1> USE DEF TypeOK, InHand, PushedAfterLog, Handling, Goto, Tasks, streamVars, adminVars, fanVars
<1>1. CASE Check(l)
  BY <1>1 DEF Check, Working
<1>2. CASE Open(l)
  BY <1>2 DEF Open, Working
<1>3. CASE Take(l)
  <2>1. /\ Head(wire[l]) \in Events
        /\ Tail(wire[l]) \in Seq(Events) /\ Len(Tail(wire[l])) <= Window
    BY <1>3, HeadTailProperties DEF Take
  <2>2. Head(wire[l]) \in 0 .. MaxEvents
    BY <2>1 DEF Events
  <2>3. TypeOK'
    BY <1>3, <2>1, <2>2 DEF Take, Working
  <2> QED
    BY <1>3, <2>1, <2>3 DEF Take
<1>4. CASE WriteLog(l)
  <2>1. cur[l] \in Events /\ log[l] \in Seq(Events)
    BY <1>4 DEF WriteLog
  <2>2. Append(log[l], cur[l]) \in Seq(Events)
        /\ cur[l] \in RangeOf(Append(log[l], cur[l]))
    BY <2>1, AppendProperties, RangeOfAppend
  <2>3. TypeOK' /\ InHand'
    BY <1>4, <2>2 DEF WriteLog, Working
  <2>4. PushedAfterLog'
    BY <1>4, <2>2 DEF WriteLog
  <2> QED
    BY <2>3, <2>4
<1>5. CASE PushDistrict(l)
  <2>1. cur[l] \in Events
    BY <1>5 DEF PushDistrict
  <2>2. received' \in [Admins -> SUBSET Events]
    BY <1>5, <2>1, PushTyped DEF PushDistrict
  <2> QED
    BY <1>5, <2>2 DEF PushDistrict, Working
<1>6. CASE PushAll(l)
  <2>1. cur[l] \in Events
    BY <1>6 DEF PushAll
  <2>2. received' \in [Admins -> SUBSET Events]
    BY <1>6, <2>1, PushTyped DEF PushAll
  <2> QED
    BY <1>6, <2>2 DEF PushAll, Working
<1>7. CASE StreamError(l)
  BY <1>7, HangTyped DEF StreamError, StreamsOK
<1> QED
  BY <1>1, <1>2, <1>3, <1>4, <1>5, <1>6, <1>7 DEF ListenerSteps

\* Failures are counted up to their bound.
LEMMA FailTyped == TypeOK /\ Fail => failures' \in 0 .. MaxFailures
  BY DEF TypeOK, Fail

\* A step that logs nothing, and leaves each listener as it was or takes it out of
\* handling, keeps what is known of alarms in hand.
LEMMA StandsDown ==
  ASSUME InHand, PushedAfterLog, log' = log,
         \A l \in Listeners :
           pc'[l] \notin Handling \/ (pc'[l] = pc[l] /\ cur'[l] = cur[l])
  PROVE  InHand' /\ PushedAfterLog'
  BY DEF InHand, PushedAfterLog, Handling

\* ... the steps in which something breaks ...
LEMMA FailureStep ==
  ASSUME TypeOK, InHand, PushedAfterLog,
         \/ \E l \in Listeners : StepFails(l) \/ HourPasses(l) \/ Break(l)
         \/ \E t \in Tasks : Killed(t)
  PROVE  TypeOK' /\ InHand' /\ PushedAfterLog'
<1>h. \A l \in Listeners, state \in {"closed", "broken"} : Hang(l, state) => StreamsOK'
  BY HangTyped
<1>f. Fail => failures' \in 0 .. MaxFailures
  BY FailTyped
<1>k. /\ pc \in [Tasks -> Working \cup {"idle", "queued", "waiting", "done", "lost"}]
      /\ cur \in [Listeners -> 0 .. MaxEvents]
      /\ Listeners \subseteq Tasks
  BY DEF TypeOK, Tasks
<1>t. ASSUME /\ UNCHANGED <<approved, queue, fanVars, log, adminVars>> /\ StreamsOK'
             /\ pc' \in [Tasks -> Working \cup {"idle", "queued", "waiting", "done", "lost"}]
             /\ cur' \in [Listeners -> 0 .. MaxEvents]
             /\ failures' \in 0 .. MaxFailures
      PROVE  TypeOK'
  BY <1>t DEF TypeOK, StreamsOK, adminVars, fanVars
<1>1. ASSUME NEW l \in Listeners, StepFails(l)
      PROVE  TypeOK' /\ InHand' /\ PushedAfterLog'
  <2>1. /\ pc' = [pc EXCEPT ![l] = "waiting"] /\ cur' = [cur EXCEPT ![l] = 0]
        /\ Hang(l, "closed") /\ Fail
        /\ UNCHANGED <<approved, queue, fanVars, log, adminVars>>
    BY <1>1 DEF StepFails, Goto
  <2>2. TypeOK'
    BY <1>h, <1>f, <1>k, <1>t, <2>1
  <2>3. \A k \in Listeners :
          pc'[k] \notin Handling \/ (pc'[k] = pc[k] /\ cur'[k] = cur[k])
    BY <1>k, <2>1 DEF Handling
  <2> QED
    BY <2>1, <2>2, <2>3, StandsDown
<1>2. ASSUME NEW l \in Listeners, HourPasses(l) \/ Break(l)
      PROVE  TypeOK' /\ InHand' /\ PushedAfterLog'
  <2>1. /\ UNCHANGED <<taskVars, cur, fanVars, log, adminVars>> /\ Hang(l, "broken")
        /\ failures' = failures \/ Fail
    BY <1>2 DEF HourPasses, Break
  <2>2. failures' \in 0 .. MaxFailures
    BY <1>f, <2>1 DEF TypeOK
  <2>3. TypeOK'
    BY <1>h, <1>k, <1>t, <2>1, <2>2 DEF taskVars
  <2> QED
    BY <2>1, <2>3, StandsDown DEF taskVars
<1>3. ASSUME NEW t \in Tasks, Killed(t)
      PROVE  TypeOK' /\ InHand' /\ PushedAfterLog'
  <2>1. /\ pc' = [pc EXCEPT ![t] = "lost"] /\ Fail
        /\ UNCHANGED <<approved, queue, fanVars, log, adminVars>>
    BY <1>3 DEF Killed, Goto
  <2>2. StreamsOK' /\ cur' \in [Listeners -> 0 .. MaxEvents]
    <3>1. CASE t \in Listeners
      BY <1>3, <1>h, <1>k, <3>1 DEF Killed
    <3>2. CASE t \notin Listeners
      BY <1>3, <1>k, <3>2 DEF Killed, TypeOK, StreamsOK, streamVars
    <3> QED
      BY <3>1, <3>2
  <2>3. TypeOK'
    BY <1>f, <1>k, <1>t, <2>1, <2>2
  <2>4. \A k \in Listeners :
          pc'[k] \notin Handling \/ (pc'[k] = pc[k] /\ cur'[k] = cur[k])
    BY <1>3, <1>k, <2>1 DEF Handling, Killed, streamVars
  <2> QED
    BY <2>1, <2>3, <2>4, StandsDown
<1> QED
  BY <1>1, <1>2, <1>3

\* An administrator is in one group or in two.
LEMMA GroupCount == \A a \in Admins : Len(GroupsOf(a)) \in 1 .. 2
<1> SUFFICES ASSUME NEW a \in Admins PROVE Len(GroupsOf(a)) \in 1 .. 2
  OBVIOUS
<1>1. CASE AdminDistrict[a] = None
  BY <1>1 DEF GroupsOf
<1>2. CASE AdminDistrict[a] # None
  BY <1>2 DEF GroupsOf
<1> QED
  BY <1>1, <1>2

\* ... those of the location service and of the administrators ...
LEMMA ServiceStep ==
  ASSUME TypeOK, InHand, PushedAfterLog,
         \/ \E s \in Sections : Raise(s)
         \/ \E e \in Events : FanOut(e) \/ FanOutReturns(e) \/ \E l \in Listeners : Offer(e, l)
         \/ \E l \in Listeners : Register(l) \/ Forward(l)
         \/ \E a \in Admins : Join(a) \/ Leave(a)
  PROVE  TypeOK' /\ InHand' /\ PushedAfterLog'
<1> USE DEF TypeOK, InHand, PushedAfterLog, streamVars, adminVars, taskVars, fanVars
<1>1. ASSUME NEW s \in Sections, Raise(s)
      PROVE  TypeOK' /\ InHand' /\ PushedAfterLog'
  <2>1. raised' \in Seq(Sections) /\ Len(raised') <= MaxEvents
    BY <1>1, AppendProperties DEF Raise
  <2>2. fan' \in [Events -> {"none", "called", "looping", "returned"}]
    BY <1>1 DEF Raise
  <2>3. earlier' \in [Events -> SUBSET Events]
    BY <1>1 DEF Raise
  <2> QED
    BY <1>1, <2>1, <2>2, <2>3 DEF Raise
<1>2. ASSUME NEW l \in Listeners, Register(l)
      PROVE  TypeOK' /\ InHand' /\ PushedAfterLog'
  BY <1>2 DEF Register
<1>3. ASSUME NEW l \in Listeners, Forward(l)
      PROVE  TypeOK' /\ InHand' /\ PushedAfterLog'
  <2>1. /\ Head(chan[l]) \in Events
        /\ Tail(chan[l]) \in Seq(Events) /\ Len(Tail(chan[l])) <= Buffer
    BY <1>3, HeadTailProperties DEF Forward
  <2>2. /\ Append(wire[l], Head(chan[l])) \in Seq(Events)
        /\ Len(Append(wire[l], Head(chan[l]))) <= Window
    BY <1>3, <2>1, AppendProperties DEF Forward
  <2> QED
    BY <1>3, <2>1, <2>2 DEF Forward
<1>4. ASSUME NEW a \in Admins, Join(a)
      PROVE  TypeOK' /\ InHand' /\ PushedAfterLog'
  <2>1. joined[a] + 1 \in 0 .. 2
    <3> HIDE DEF TypeOK, InHand, PushedAfterLog
    <3>1. joined[a] \in 0 .. 2
      BY DEF TypeOK
    <3>2. joined[a] < Len(GroupsOf(a))
      BY <1>4 DEF Join
    <3>3. Len(GroupsOf(a)) \in 1 .. 2
      BY GroupCount
    <3>4. \A j \in 0 .. 2, k \in 1 .. 2 : j < k => j + 1 \in 0 .. 2
      OBVIOUS
    <3> QED
      BY <3>1, <3>2, <3>3, <3>4, Zenon
  <2> QED
    BY <1>4, <2>1 DEF Join
<1>5. ASSUME NEW a \in Admins, Leave(a)
      PROVE  TypeOK' /\ InHand' /\ PushedAfterLog'
  BY <1>5 DEF Leave
<1>6. ASSUME NEW e \in Events, FanOut(e) \/ FanOutReturns(e)
      PROVE  TypeOK' /\ InHand' /\ PushedAfterLog'
  <2>1. left' \in [Events -> SUBSET Listeners]
    <3>1. CASE FanOut(e)
      <4>1. \E L \in SUBSET Listeners : left' = [left EXCEPT ![e] = L]
        BY <3>1 DEF FanOut
      <4> QED
        BY <4>1
    <3>2. CASE FanOutReturns(e)
      BY <3>2 DEF FanOutReturns
    <3> QED
      BY <1>6, <3>1, <3>2
  <2>2. fan' \in [Events -> {"none", "called", "looping", "returned"}]
    BY <1>6 DEF FanOut, FanOutReturns
  <2>3. UNCHANGED <<approved, queue, pc, cur, stream, chan, wire, raised, earlier, log, joined,
                    received, failures>>
    BY <1>6 DEF FanOut, FanOutReturns
  <2> QED
    BY <2>1, <2>2, <2>3
<1>7. ASSUME NEW e \in Events, NEW l \in Listeners, Offer(e, l)
      PROVE  TypeOK' /\ InHand' /\ PushedAfterLog'
  <2>1. left' \in [Events -> SUBSET Listeners]
    BY <1>7 DEF Offer
  <2>2. /\ Append(chan[l], e) \in Seq(Events)
        /\ Len(chan[l]) < Buffer => Len(Append(chan[l], e)) <= Buffer
    BY AppendProperties, LenProperties
  <2>3. chan' \in [Listeners -> Seq(Events)] /\ \A k \in Listeners : Len(chan'[k]) <= Buffer
    BY <1>7, <2>2 DEF Offer
  <2> QED
    BY <1>7, <2>1, <2>3 DEF Offer
<1> QED
  BY <1>1, <1>2, <1>3, <1>4, <1>5, <1>6, <1>7

\* ... and with them every step.
LEMMA TypeStep ==
  ASSUME TypeOK, InHand, PushedAfterLog, [Next]_vars
  PROVE  TypeOK' /\ InHand' /\ PushedAfterLog'
<1>1. CASE UNCHANGED vars
  BY <1>1 DEF TypeOK, InHand, PushedAfterLog, vars, taskVars, streamVars, adminVars, fanVars
<1>2. CASE Next
  BY <1>2, TaskQueueStep, ListenerStep, FailureStep, ServiceStep DEF Next
<1> QED
  BY <1>1, <1>2

\* The state keeps its types, the bounds of the buffers included; an alarm in hand is one,
\* and it is in AlarmLog before it is pushed.
THEOREM TypeCorrect == Spec => [](TypeOK /\ InHand /\ PushedAfterLog)
<1>1. Init => TypeOK /\ InHand /\ PushedAfterLog
  BY TypeInit
<1>2. TypeOK /\ InHand /\ PushedAfterLog /\ [Next]_vars
        => (TypeOK /\ InHand /\ PushedAfterLog)'
  BY TypeStep
<1> QED
  BY <1>1, <1>2, PTL DEF Spec

-----------------------------------------------------------------------------
(* Nothing is shown that is not logged.                                              *)

\* Rows stay in AlarmLog.
LEMMA LogGrows ==
  ASSUME TypeOK, InHand, [Next]_vars, NEW l \in Listeners
  PROVE  RangeOf(log[l]) \subseteq RangeOf(log'[l])
<1>1. CASE UNCHANGED log
  BY <1>1 DEF RangeOf
<1>2. ASSUME NEW k \in Listeners, WriteLog(k)
      PROVE  RangeOf(log[l]) \subseteq RangeOf(log'[l])
  <2>1. cur[k] \in Events /\ log \in [Listeners -> Seq(Events)]
    BY <1>2 DEF WriteLog, InHand, Handling, TypeOK
  <2>2. log' = [log EXCEPT ![k] = Append(@, cur[k])]
    BY <1>2 DEF WriteLog
  <2> QED
    BY <2>1, <2>2, RangeOfAppend
<1>3. (\E k \in Listeners : WriteLog(k)) \/ UNCHANGED log
  BY DEF Next, ListenerSteps, vars, Launch, Killed, StartTask, Notify, Withdraw, Raise, FanOut,
         Offer, FanOutReturns, Check, Open, Take, PushDistrict, PushAll, StreamError, Requeue, StepFails, Register, Forward,
         HourPasses, Break, Join, Leave
<1> QED
  BY <1>1, <1>2, <1>3

\* Only the two pushes of a listener show an alarm, the one in its hand.
LEMMA ShownByPush ==
  ASSUME TypeOK, [Next]_vars, NEW a \in Admins, NEW e \in Events,
         e \in received'[a], e \notin received[a]
  PROVE  \E l \in Listeners : pc[l] \in {"district", "all"} /\ cur[l] = e
<1>1. ASSUME NEW g, NEW l \in Listeners, Push(g, cur[l])
      PROVE  cur[l] = e
  BY <1>1 DEF Push
<1>2. \/ \E l \in Listeners : PushDistrict(l) \/ PushAll(l)
      \/ UNCHANGED received
  BY DEF Next, ListenerSteps, vars, adminVars, Launch, Killed, StartTask, Notify, Withdraw, Raise,
         FanOut, Offer, FanOutReturns, Check, Open, Take, WriteLog, StreamError, Requeue, StepFails, Register, Forward,
         HourPasses, Break, Join, Leave
<1>3. PICK l \in Listeners : PushDistrict(l) \/ PushAll(l)
  BY <1>2
<1> QED
  BY <1>1, <1>3 DEF PushDistrict, PushAll

\* Nobody is shown an alarm that AlarmLog does not have, for any number of failures between
\* the row and the pushes.
THEOREM PushedIsLoggedHolds == Spec => []PushedIsLogged
<1>1. Init => PushedIsLogged
  BY DEF Init, PushedIsLogged, Events
<1>2. TypeOK /\ InHand /\ PushedAfterLog /\ PushedIsLogged /\ [Next]_vars => PushedIsLogged'
  <2> SUFFICES ASSUME TypeOK, InHand, PushedAfterLog, PushedIsLogged, [Next]_vars,
                      NEW a \in Admins, NEW e \in received'[a]
               PROVE  \E l \in Listeners : e \in RangeOf(log'[l])
    BY DEF PushedIsLogged, RangeOf
  <2>0. e \in Events
    BY TypeStep DEF TypeOK
  <2>1. PICK l \in Listeners : e \in RangeOf(log[l])
    <3>1. CASE e \in received[a]
      BY <3>1 DEF PushedIsLogged
    <3>2. CASE e \notin received[a]
      BY <2>0, <3>2, ShownByPush DEF PushedAfterLog
    <3> QED
      BY <3>1, <3>2
  <2> QED
    BY <2>1, LogGrows
<1> QED
  BY <1>1, <1>2, TypeCorrect, PTL DEF Spec

-----------------------------------------------------------------------------
(* Lines keep their order.                                                           *)

\* What a step can do to the line of a listener: nothing, cut it when the call is over, or
\* add the alarm that a loop offers to its channel.
Kept(l) == Line(l)' = Line(l)
Cut(l)  ==
  /\ stream'[l] # "open" /\ Line(l)' \in Seq(Events)
  /\ \E q \in Seq(Events) : Line(l) = Line(l)' \o q
Extended(l, e) ==
  /\ Line(l)' = Append(Line(l), e)
  /\ l \in left[e] /\ l \notin left'[e] /\ UNCHANGED <<raised, fan, earlier>>

Untouched(l) ==
  log'[l] = log[l] /\ Held(l)' = Held(l) /\ wire'[l] = wire[l] /\ chan'[l] = chan[l]

\* A line whose parts do not change does not change.
LEMMA UntouchedIsKept == \A l : Untouched(l) => Kept(l)
  BY DEF Untouched, Kept, Line, Held

\* The end of a call cuts a line short.
LEMMA HangCuts ==
  ASSUME TypeOK, InHand, NEW l \in Listeners, NEW state \in {"closed", "broken"},
         Hang(l, state), log'[l] = log[l], Held(l)' = Held(l) \/ Held(l)' = << >>
  PROVE  Cut(l)
<1>1. stream'[l] # "open" /\ wire'[l] = << >> /\ chan'[l] = << >>
  BY DEF Hang, TypeOK
<1>2. Line(l)' = ((log'[l] \o Held(l)') \o wire'[l]) \o chan'[l]
  BY DEF Line, Held
<1>3. PICK p \in Seq(Events), q \in Seq(Events), r \in Seq(Events), t \in Seq(Events) :
        /\ log[l] = p /\ Held(l) = q /\ wire[l] = r /\ chan[l] = t
        /\ Line(l) = ((p \o q) \o r) \o t
  BY LineParts
<1>4. CASE Held(l)' = q
  <2>1. Line(l)' = p \o q
    BY <1>1, <1>2, <1>3, <1>4
  <2>2. ((p \o q) \o r) \o t = (p \o q) \o (r \o t) /\ r \o t \in Seq(Events)
        /\ p \o q \in Seq(Events)
    OBVIOUS
  <2> QED
    BY <1>1, <1>3, <2>1, <2>2 DEF Cut
<1>5. CASE Held(l)' = << >>
  <2>1. Line(l)' = p
    BY <1>1, <1>2, <1>3, <1>5
  <2>2. PICK u : u = r \o t
    OBVIOUS
  <2>3. u \in Seq(Events)
    BY <2>2
  <2>4. (p \o q) \o u = p \o (q \o u) /\ q \o u \in Seq(Events)
    BY <2>3
  <2>5. ((p \o q) \o r) \o t = (p \o q) \o u
    BY <2>2, <2>3, SMTT(30)
  <2>6. Line(l) = p \o (q \o u)
    BY <1>3, <2>4, <2>5
  <2> HIDE <2>2
  <2>7. \E s \in Seq(Events) : Line(l) = Line(l)' \o s
    BY <2>1, <2>4, <2>6
  <2> QED
    BY <1>1, <1>3, <2>1, <2>7 DEF Cut
<1> QED
  BY <1>3, <1>4, <1>5

\* The three hand-overs: from the channel to the wire, from the wire to the listener, from
\* the listener to the log.
LEMMA HandOver ==
  ASSUME TypeOK, InHand, NEW l \in Listeners, Forward(l) \/ Take(l) \/ WriteLog(l)
  PROVE  Kept(l)
<1>1. PICK p \in Seq(Events), q \in Seq(Events), r \in Seq(Events), t \in Seq(Events) :
        /\ log[l] = p /\ Held(l) = q /\ wire[l] = r /\ chan[l] = t
        /\ Line(l) = ((p \o q) \o r) \o t
  BY LineParts
<1>2. Line(l)' = ((log'[l] \o Held(l)') \o wire'[l]) \o chan'[l]
  BY DEF Line, Held
<1>3. CASE Forward(l)
  <2>1. t # << >> /\ log'[l] = p /\ Held(l)' = q
        /\ wire'[l] = Append(r, Head(t)) /\ chan'[l] = Tail(t)
    BY <1>1, <1>3 DEF Forward, Held, TypeOK, taskVars
  <2>2. r \o t = Append(r, Head(t)) \o Tail(t)
    BY <2>1, MoveHead
  <2>3. PICK x \in Seq(Events), y \in Seq(Events) : x = Append(r, Head(t)) /\ y = Tail(t)
    BY <2>1, HeadTailProperties, AppendProperties
  <2>4. \A v, w \in Seq(Events) : ((p \o q) \o v) \o w = (p \o q) \o (v \o w)
    BY Regroup
  <2>5. Line(l)' = ((p \o q) \o x) \o y
    BY <1>2, <2>1, <2>3
  <2>6. Line(l)' = (p \o q) \o (x \o y)
    BY <2>4, <2>5
  <2>7. Line(l) = (p \o q) \o (r \o t)
    BY <1>1, <2>4
  <2> QED
    BY <2>2, <2>3, <2>6, <2>7 DEF Kept
<1>4. CASE Take(l)
  <2>1. r # << >> /\ log'[l] = p /\ q = << >> /\ Held(l)' = <<Head(r)>>
        /\ wire'[l] = Tail(r) /\ chan'[l] = t
    BY <1>1, <1>4 DEF Take, Held, TypeOK, Goto, Tasks
  <2>2. ((p \o << >>) \o r) \o t = ((p \o <<Head(r)>>) \o Tail(r)) \o t
    BY <2>1
  <2> QED
    BY <1>1, <1>2, <2>1, <2>2 DEF Kept
<1>5. CASE WriteLog(l)
  <2>1. PICK e \in Events : e = cur[l]
    BY <1>5 DEF WriteLog, InHand, Handling
  <2>2. log'[l] = Append(p, e) /\ q = <<e>> /\ Held(l)' = << >> /\ wire'[l] = r /\ chan'[l] = t
    BY <1>1, <1>5, <2>1 DEF WriteLog, Held, TypeOK, Goto, Tasks, streamVars
  <2>3. ((p \o <<e>>) \o r) \o t = ((Append(p, e) \o << >>) \o r) \o t
    OBVIOUS
  <2> QED
    BY <1>1, <1>2, <2>2, <2>3 DEF Kept
<1> QED
  BY <1>3, <1>4, <1>5

\* An alarm that is offered extends the line whose channel takes it, and no other.
LEMMA OfferLine ==
  ASSUME TypeOK, InHand, NEW e \in Events, NEW k \in Listeners, Offer(e, k), NEW l \in Listeners
  PROVE  Kept(l) \/ Extended(l, e)
<1>1. PICK p \in Seq(Events), q \in Seq(Events), r \in Seq(Events), t \in Seq(Events) :
        /\ log[l] = p /\ Held(l) = q /\ wire[l] = r /\ chan[l] = t
        /\ Line(l) = ((p \o q) \o r) \o t
  BY LineParts
<1>2. log'[l] = p /\ Held(l)' = q /\ wire'[l] = r
  BY <1>1 DEF Offer, Held, taskVars
<1>3. CASE k = l /\ stream[l] = "open" /\ Len(chan[l]) < Buffer
  <2>1. chan'[l] = Append(t, e)
    BY <1>1, <1>3 DEF Offer, TypeOK
  <2>2. ((p \o q) \o r) \o Append(t, e) = Append(((p \o q) \o r) \o t, e)
    OBVIOUS
  <2>3. Line(l)' = ((log'[l] \o Held(l)') \o wire'[l]) \o chan'[l]
    BY DEF Line, Held
  <2>4. Line(l)' = Append(Line(l), e)
    BY <1>1, <1>2, <2>1, <2>2, <2>3
  <2>5. l \in left[e] /\ l \notin left'[e]
    BY <1>3 DEF Offer, TypeOK
  <2> QED
    BY <2>4, <2>5 DEF Extended, Offer
<1>4. CASE ~ (k = l /\ stream[l] = "open" /\ Len(chan[l]) < Buffer)
  <2>1. chan'[l] = chan[l]
    BY <1>4 DEF Offer, TypeOK
  <2> QED
    BY <1>1, <1>2, <2>1, UntouchedIsKept DEF Untouched
<1> QED
  BY <1>3, <1>4

\* A task is queued as long as its message is in the queue, and it is there once: no
\* task runs in two processes.
QueueOK ==
  /\ \A n \in 1 .. Len(queue) : pc[queue[n]] = "queued"
  /\ \A m, n \in 1 .. Len(queue) : queue[m] = queue[n] => m = n

\* Every step keeps the queue so.
LEMMA QueueStep ==
  ASSUME TypeOK, QueueOK, [Next]_vars
  PROVE  QueueOK'
<1>1. ASSUME NEW t \in Tasks, pc[t] \in {"idle", "waiting"},
             queue' = Append(queue, t), Goto(t, "queued")
      PROVE  QueueOK'
  <2>1. /\ Len(queue') = Len(queue) + 1 /\ Len(queue) \in Nat /\ queue'[Len(queue) + 1] = t
        /\ \A n \in 1 .. Len(queue) : queue'[n] = queue[n] /\ queue[n] \in Tasks
    BY <1>1, AppendProperties, ElementOfSeq, LenProperties DEF TypeOK
  <2>2. \A n \in 1 .. Len(queue) : queue[n] # t
    BY <1>1 DEF QueueOK
  <2>3. pc'[t] = "queued" /\ \A u \in Tasks : u # t => pc'[u] = pc[u]
    BY <1>1 DEF Goto, TypeOK
  <2>4. \A n \in 1 .. Len(queue') : n \in 1 .. Len(queue) \/ n = Len(queue) + 1
    BY <2>1
  <2> QED
    BY <2>1, <2>2, <2>3, <2>4 DEF QueueOK
<1>2. CASE StartTask
  <2>1. queue \in Seq(Tasks) /\ queue # << >>
    BY <1>2 DEF StartTask, TypeOK
  <2>2. /\ Len(queue) \in Nat \ {0} /\ Head(queue) = queue[1] /\ Head(queue) \in Tasks
        /\ Len(queue') = Len(queue) - 1
        /\ \A n \in 1 .. Len(queue') : queue'[n] = queue[n + 1] /\ queue[n + 1] \in Tasks
    BY <1>2, <2>1, HeadTailProperties, EmptySeq, ElementOfSeq DEF StartTask
  <2>3. \A u \in Tasks : u # Head(queue) => pc'[u] = pc[u]
    BY <1>2, <2>2 DEF StartTask, Goto, TypeOK
  <2>4. \A n \in 1 .. Len(queue') : n + 1 \in 1 .. Len(queue) /\ n + 1 # 1
    BY <2>2
  <2>5. 1 \in 1 .. Len(queue)
    BY <2>2
  <2>6. \A n \in 1 .. Len(queue') : queue'[n] # Head(queue)
    BY <2>2, <2>4, <2>5 DEF QueueOK
  <2>7. \A n \in 1 .. Len(queue') : pc'[queue'[n]] = "queued"
    BY <2>2, <2>3, <2>4, <2>6 DEF QueueOK
  <2>8. \A m, n \in 1 .. Len(queue') : queue'[m] = queue'[n] => m = n
    BY <2>2, <2>4 DEF QueueOK
  <2> QED
    BY <2>7, <2>8 DEF QueueOK
<1>3. ASSUME UNCHANGED queue, \A u \in Tasks : pc[u] = "queued" => pc'[u] = "queued"
      PROVE  QueueOK'
  <2>1. \A n \in 1 .. Len(queue) : queue[n] \in Tasks
    BY ElementOfSeq DEF TypeOK
  <2> QED
    BY <1>3, <2>1 DEF QueueOK
<1>4. \/ \E t \in Tasks : /\ pc[t] \in {"idle", "waiting"}
                         /\ queue' = Append(queue, t) /\ Goto(t, "queued")
      \/ StartTask
      \/ UNCHANGED queue /\ \A u \in Tasks : pc[u] = "queued" => pc'[u] = "queued"
  <2>1. ASSUME NEW t \in Tasks, NEW step, pc[t] # "queued", Goto(t, step)
        PROVE  \A u \in Tasks : pc[u] = "queued" => pc'[u] = "queued"
    BY <2>1 DEF Goto, TypeOK
  <2>2. CASE UNCHANGED <<queue, pc>>
    BY <2>2
  <2>3. CASE \E t \in Tasks : Launch(t) \/ (t \in Listeners /\ Requeue(t))
    BY <2>3 DEF Launch, Requeue
  <2>4. CASE \E t \in Tasks : Killed(t) \/ (t \in Incidents /\ Notify(t))
    BY <2>1, <2>4 DEF Killed, Notify, Working, Handling
  <2>5. CASE \E l \in Listeners :
               Check(l) \/ Open(l) \/ Take(l) \/ WriteLog(l) \/ PushDistrict(l)
                 \/ PushAll(l) \/ StreamError(l) \/ StepFails(l)
    BY <2>1, <2>5
       DEF Check, Open, Take, WriteLog, PushDistrict, PushAll, StreamError, StepFails, Tasks,
           Handling
  <2>6. CASE \/ \E s \in Sections : Withdraw(s) \/ Raise(s)
             \/ \E e \in Events :
                  FanOut(e) \/ FanOutReturns(e) \/ \E l \in Listeners : Offer(e, l)
             \/ \E l \in Listeners : Register(l) \/ Forward(l) \/ HourPasses(l) \/ Break(l)
             \/ \E a \in Admins : Join(a) \/ Leave(a)
             \/ UNCHANGED vars
    BY <2>2, <2>6
       DEF Withdraw, Raise, FanOut, FanOutReturns, Offer, Register, Forward, HourPasses, Break,
           Join, Leave, vars, taskVars
  <2>7. Next =>
          \/ StartTask
          \/ \E t \in Tasks : Launch(t) \/ (t \in Listeners /\ Requeue(t))
          \/ \E t \in Tasks : Killed(t) \/ (t \in Incidents /\ Notify(t))
          \/ \E l \in Listeners :
               Check(l) \/ Open(l) \/ Take(l) \/ WriteLog(l) \/ PushDistrict(l)
                 \/ PushAll(l) \/ StreamError(l) \/ StepFails(l)
          \/ \E s \in Sections : Withdraw(s) \/ Raise(s)
          \/ \E e \in Events :
               FanOut(e) \/ FanOutReturns(e) \/ \E l \in Listeners : Offer(e, l)
          \/ \E l \in Listeners : Register(l) \/ Forward(l) \/ HourPasses(l) \/ Break(l)
          \/ \E a \in Admins : Join(a) \/ Leave(a)
    BY DEF Next, ListenerSteps, Tasks
  <2>8. CASE StartTask
    BY <2>8
  <2>9. Next \/ UNCHANGED vars
    OBVIOUS
  <2> QED
    BY <2>3, <2>4, <2>5, <2>6, <2>7, <2>8, <2>9, Zenon
<1> QED
  BY <1>1, <1>2, <1>3, <1>4

\* Whatever a step does, the line of a listener is kept, cut or extended.
LEMMA LineStep ==
  ASSUME TypeOK, InHand, QueueOK, Next, NEW l \in Listeners
  PROVE  Kept(l) \/ Cut(l) \/ \E e \in Events : Extended(l, e)
<1>1. CASE \/ \E t \in Tasks : Launch(t)
           \/ StartTask
           \/ \E i \in Incidents : Notify(i)
           \/ \E s \in Sections : Withdraw(s) \/ Raise(s)
           \/ \E e \in Events : FanOut(e) \/ FanOutReturns(e)
           \/ \E k \in Listeners : Requeue(k) \/ Register(k)
           \/ \E a \in Admins : Join(a) \/ Leave(a)
  <2>1. log' = log /\ cur' = cur /\ wire' = wire /\ chan' = chan
    BY <1>1 DEF Launch, StartTask, Notify, Withdraw, Raise, FanOut, FanOutReturns, Requeue, Register,
                Join, Leave, streamVars
  <2>2. StartTask => (pc'[l] = "log" <=> pc[l] = "log")
    <3> SUFFICES ASSUME StartTask PROVE pc'[l] = "log" <=> pc[l] = "log"
      OBVIOUS
    <3>1. Head(queue) \in Tasks /\ pc[Head(queue)] = "queued"
      BY HeadTailProperties, EmptySeq DEF StartTask, QueueOK, TypeOK
    <3> QED
      BY <3>1 DEF StartTask, TypeOK, Goto, Tasks
  <2>3. pc'[l] = "log" <=> pc[l] = "log"
    BY <1>1, <2>2
       DEF Launch, Notify, Withdraw, Raise, FanOut, FanOutReturns, Requeue, Register, Join, Leave,
           TypeOK, Goto, Tasks, taskVars
  <2> QED
    BY <2>1, <2>3, UntouchedIsKept DEF Untouched, Held
<1>2. ASSUME NEW e \in Events, NEW k \in Listeners, Offer(e, k)
      PROVE  Kept(l) \/ Extended(l, e)
  BY <1>2, OfferLine
<1>3. ASSUME NEW k \in Listeners, Forward(k) \/ Take(k) \/ WriteLog(k)
      PROVE  Kept(l)
  <2>1. CASE k = l
    BY <1>3, <2>1, HandOver
  <2>2. CASE k # l
    <3>1. Untouched(l)
      BY <1>3, <2>2
         DEF Forward, Take, WriteLog, Untouched, Held, TypeOK, Goto, Tasks, taskVars, streamVars
    <3> QED
      BY <3>1, UntouchedIsKept
  <2> QED
    BY <2>1, <2>2
<1>4. ASSUME NEW k \in Listeners, Check(k) \/ Open(k) \/ PushDistrict(k) \/ PushAll(k)
      PROVE  Kept(l)
  <2>1. Untouched(l)
    BY <1>4
       DEF Check, Open, PushDistrict, PushAll, Untouched, Held, TypeOK, Goto, Tasks, streamVars
  <2> QED
    BY <2>1, UntouchedIsKept
<1>5. ASSUME NEW k \in Listeners,
             StreamError(k) \/ StepFails(k) \/ HourPasses(k) \/ Break(k) \/ Killed(k)
      PROVE  Kept(l) \/ Cut(l)
  <2>1. \E state \in {"closed", "broken"} : Hang(k, state)
    BY <1>5 DEF StreamError, StepFails, HourPasses, Break, Killed
  <2>2. CASE k = l
    <3>1. log'[l] = log[l]
      BY <1>5 DEF StreamError, StepFails, HourPasses, Break, Killed
    <3>2. Held(l)' = Held(l) \/ Held(l)' = << >>
      BY <1>5, <2>2
         DEF StreamError, StepFails, HourPasses, Break, Killed, Held, TypeOK, Goto, Tasks, taskVars
    <3> QED
      BY <2>1, <2>2, <3>1, <3>2, HangCuts
  <2>3. CASE k # l
    <3>1. wire'[l] = wire[l] /\ chan'[l] = chan[l]
      BY <2>1, <2>3 DEF Hang, TypeOK
    <3>2. log'[l] = log[l] /\ pc'[l] = pc[l] /\ cur'[l] = cur[l]
      BY <1>5, <2>3
         DEF StreamError, StepFails, HourPasses, Break, Killed, TypeOK, Goto, Tasks, taskVars
    <3> QED
      BY <3>1, <3>2, UntouchedIsKept DEF Untouched, Held
  <2> QED
    BY <2>2, <2>3
<1>6. ASSUME NEW t \in Tasks \ Listeners, Killed(t)
      PROVE  Kept(l)
  <2>1. Untouched(l)
    BY <1>6 DEF Killed, Untouched, Held, TypeOK, Goto, Tasks, streamVars
  <2> QED
    BY <2>1, UntouchedIsKept
<1> QED
  BY <1>1, <1>2, <1>3, <1>4, <1>5, <1>6 DEF Next, ListenerSteps, Tasks

\* LoggedInOrder, by line.
LEMMA OrderedLines ==
  LoggedInOrder <=>
    \A l \in Listeners : InOrder(Line(l), earlier) /\ RaisedFor(Line(l), raised, ListensTo[l])
  BY DEF LoggedInOrder, InOrder, RaisedFor

\* Where a call of fanOut is: its alarm has been raised, its loop is under way while it has
\* channels left, all of the alarm's section, and it had returned when a later alarm says so.
FanOK ==
  /\ \A e \in Events : fan[e] # "none" => e <= Len(raised)
  /\ \A e \in Events : \A l \in left[e] : fan[e] = "looping" /\ raised[e] = ListensTo[l]
  /\ \A e \in Events : \A d \in earlier[e] : fan[d] = "returned"

\* A listener that an alarm has still to be offered to does not have it.
OfferedOnce ==
  \A e \in Events, l \in Listeners :
    fan[e] = "called" \/ l \in left[e] => e \notin RangeOf(Line(l))

\* Most steps are none of a goroutine that raises an alarm.
LEMMA OtherSteps ==
  ASSUME [Next]_vars
  PROVE  \/ \E s \in Sections : Raise(s)
         \/ \E e \in Events : FanOut(e) \/ FanOutReturns(e) \/ \E l \in Listeners : Offer(e, l)
         \/ UNCHANGED fanVars
<1>1. CASE \E t \in Tasks : Launch(t) \/ Killed(t)
  BY <1>1 DEF Launch, Killed
<1>2. CASE StartTask \/ (\E i \in Incidents : Notify(i)) \/ (\E s \in Sections : Withdraw(s))
  BY <1>2 DEF StartTask, Notify, Withdraw
<1>3. CASE \E l \in Listeners : ListenerSteps(l)
  BY <1>3 DEF ListenerSteps, Check, Open, Take, WriteLog, PushDistrict, PushAll, StreamError
<1>4. CASE \E l \in Listeners : Requeue(l) \/ StepFails(l) \/ Register(l) \/ Forward(l)
                                  \/ HourPasses(l) \/ Break(l)
  BY <1>4 DEF Requeue, StepFails, Register, Forward, HourPasses, Break
<1>5. CASE (\E a \in Admins : Join(a) \/ Leave(a)) \/ UNCHANGED vars
  BY <1>5 DEF Join, Leave, vars
<1> QED
  BY <1>1, <1>2, <1>3, <1>4, <1>5 DEF Next

\* What a step leaves of the goroutines: their alarms keep their section and the alarms that
\* were earlier, and only the alarm just raised has listeners to be offered to anew.
LEMMA FanStep ==
  ASSUME TypeOK, FanOK, [Next]_vars
  PROVE  /\ FanOK'
         /\ \A e \in Events : e <= Len(raised) =>
              e <= Len(raised)' /\ raised'[e] = raised[e] /\ earlier'[e] = earlier[e]
         /\ \A e \in Events, l \in Listeners :
              fan'[e] = "called" \/ l \in left'[e] =>
                fan[e] = "called" \/ l \in left[e] \/ e = Len(raised) + 1
<1>t. /\ fan \in [Events -> {"none", "called", "looping", "returned"}]
      /\ left \in [Events -> SUBSET Listeners] /\ earlier \in [Events -> SUBSET Events]
      /\ raised \in Seq(Sections) /\ Len(raised) \in Nat
  BY LenProperties DEF TypeOK
<1>1. ASSUME NEW s \in Sections, Raise(s)
      PROVE  /\ FanOK'
             /\ \A e \in Events : e <= Len(raised) =>
                  e <= Len(raised)' /\ raised'[e] = raised[e] /\ earlier'[e] = earlier[e]
             /\ \A e \in Events, l \in Listeners :
                  fan'[e] = "called" \/ l \in left'[e] =>
                    fan[e] = "called" \/ l \in left[e] \/ e = Len(raised) + 1
  <2>1. PICK f \in Events : f = Len(raised) + 1
    BY <1>1, <1>t DEF Raise, Events
  <2>2. /\ fan' = [fan EXCEPT ![f] = "called"] /\ left' = left
        /\ earlier' = [earlier EXCEPT ![f] = {d \in Events : fan[d] = "returned"}]
        /\ raised' = Append(raised, s)
    BY <1>1, <2>1 DEF Raise
  <2>3. /\ Len(raised') = Len(raised) + 1
        /\ \A e \in Events : e <= Len(raised) => raised'[e] = raised[e] /\ e # f
    BY <1>t, <2>1, <2>2, AppendProperties DEF Events
  <2>4. fan[f] = "none" /\ left[f] = {}
    BY <1>t, <2>1 DEF FanOK
  <2>5. \A e \in Events : fan'[e] # "none" => e <= Len(raised')
    BY <1>t, <2>1, <2>2, <2>3 DEF FanOK, Events
  <2>6. \A e \in Events : \A l \in left'[e] : fan'[e] = "looping" /\ raised'[e] = ListensTo[l]
    BY <1>t, <2>2, <2>3, <2>4 DEF FanOK
  <2>7. \A e \in Events : \A d \in earlier'[e] : fan'[d] = "returned"
    BY <1>t, <2>2, <2>4 DEF FanOK
  <2>8. \A e \in Events : e <= Len(raised) =>
          e <= Len(raised') /\ raised'[e] = raised[e] /\ earlier'[e] = earlier[e]
    BY <1>t, <2>2, <2>3 DEF Events
  <2>9. \A e \in Events, l \in Listeners :
          fan'[e] = "called" \/ l \in left'[e] =>
            fan[e] = "called" \/ l \in left[e] \/ e = Len(raised) + 1
    BY <1>t, <2>1, <2>2
  <2> QED
    BY <2>5, <2>6, <2>7, <2>8, <2>9 DEF FanOK
<1>2. ASSUME NEW f \in Events, FanOut(f)
      PROVE  FanOK' /\ raised' = raised /\ earlier' = earlier
             /\ \A e \in Events, l \in Listeners :
                  fan'[e] = "called" \/ l \in left'[e] => fan[e] = "called" \/ l \in left[e]
  <2>1. /\ fan[f] = "called" /\ fan' = [fan EXCEPT ![f] = "looping"]
        /\ left' = [left EXCEPT ![f] =
                      {l \in Listeners : ListensTo[l] = raised[f] /\ stream[l] = "open"}]
        /\ raised' = raised /\ earlier' = earlier
    BY <1>2 DEF FanOut
  <2> QED
    BY <1>t, <2>1 DEF FanOK
<1>3. ASSUME NEW f \in Events, FanOutReturns(f)
      PROVE  FanOK' /\ raised' = raised /\ earlier' = earlier
             /\ \A e \in Events, l \in Listeners :
                  fan'[e] = "called" \/ l \in left'[e] => fan[e] = "called" \/ l \in left[e]
  BY <1>t, <1>3 DEF FanOutReturns, FanOK
<1>4. ASSUME NEW f \in Events, NEW k \in Listeners, Offer(f, k)
      PROVE  FanOK' /\ raised' = raised /\ earlier' = earlier
             /\ \A e \in Events, l \in Listeners :
                  fan'[e] = "called" \/ l \in left'[e] => fan[e] = "called" \/ l \in left[e]
  BY <1>t, <1>4 DEF Offer, FanOK
<1>5. CASE UNCHANGED fanVars
  BY <1>5 DEF fanVars, FanOK
<1> QED
  BY <1>1, <1>2, <1>3, <1>4, <1>5, OtherSteps

\* The order of the alarms survives every step of the pipeline.
LEMMA OrderStep ==
  ASSUME TypeOK, InHand, PushedAfterLog, QueueOK, FanOK, OfferedOnce, LoggedInOrder,
         [Next]_vars
  PROVE  OfferedOnce' /\ LoggedInOrder'
<1>1. CASE UNCHANGED vars
  <2>1. \A l \in Listeners : Line(l)' = Line(l)
    BY <1>1 DEF Line, vars, taskVars, streamVars
  <2> QED
    BY <1>1, <2>1 DEF LoggedInOrder, OfferedOnce, RangeOf, vars, fanVars
<1>2. CASE Next
  <2>1. \A l \in Listeners : /\ Line(l) \in Seq(Events) /\ InOrder(Line(l), earlier)
                             /\ RaisedFor(Line(l), raised, ListensTo[l])
    BY LineIsSeq, OrderedLines
  <2>2. ASSUME NEW l \in Listeners, Kept(l) \/ Cut(l)
        PROVE  /\ RangeOf(Line(l)') \subseteq RangeOf(Line(l)) /\ InOrder(Line(l)', earlier)
               /\ Line(l)' \in Seq(Events)
    <3>1. CASE Kept(l)
      BY <2>1, <3>1 DEF Kept
    <3>2. CASE Cut(l)
      <4>1. PICK q \in Seq(Events) : Line(l) = Line(l)' \o q
        BY <3>2 DEF Cut
      <4>2. PICK p \in Seq(Events) : p = Line(l)'
        BY <3>2 DEF Cut
      <4>3. InOrder(p \o q, earlier) /\ RaisedFor(p \o q, raised, ListensTo[l])
        BY <2>1, <4>1, <4>2
      <4>4. InOrder(p, earlier) /\ RangeOf(p) \subseteq RangeOf(p \o q)
        BY <4>3, Beginning
      <4> QED
        BY <4>1, <4>2, <4>4
    <3> QED
      BY <2>2, <3>1, <3>2
  <2>3. ASSUME NEW l \in Listeners, NEW e \in Events, Extended(l, e)
        PROVE  /\ RangeOf(Line(l)') = RangeOf(Line(l)) \cup {e}
               /\ Line(l)' \in Seq(Events) /\ InOrder(Line(l)', earlier)
               /\ e <= Len(raised) /\ raised[e] = ListensTo[l] /\ fan'[e] = "looping"
    <3>1. PICK q \in Seq(Events) : q = Line(l)
      BY <2>1
    <3>2. l \in left[e] /\ fan[e] = "looping" /\ e <= Len(raised) /\ raised[e] = ListensTo[l]
      BY <2>3 DEF Extended, FanOK
    <3>3. e \notin RangeOf(q)
      BY <3>1, <3>2 DEF OfferedOnce
    <3>4. \A d \in RangeOf(q) : d \in Events
      BY ElementOfSeq DEF RangeOf
    <3>5. \A d \in RangeOf(q) : e \notin earlier[d]
      BY <3>2, <3>4 DEF FanOK
    <3>6. InOrder(Append(q, e), earlier) /\ RangeOf(Append(q, e)) = RangeOf(q) \cup {e}
      BY <2>1, <3>1, <3>3, <3>5, NextAlarm, RangeOfAppend
    <3> QED
      BY <2>3, <3>1, <3>2, <3>6, AppendProperties DEF Extended
  <2>4. \A e \in Events : e <= Len(raised) =>
          e <= Len(raised)' /\ raised'[e] = raised[e] /\ earlier'[e] = earlier[e]
    BY FanStep
  <2>5. ASSUME NEW l \in Listeners
        PROVE  /\ Line(l)' \in Seq(Events) /\ InOrder(Line(l)', earlier)
               /\ RaisedFor(Line(l)', raised, ListensTo[l])
    <3>1. CASE Kept(l) \/ Cut(l)
      BY <2>1, <2>2, <3>1 DEF RaisedFor
    <3>2. ASSUME NEW e \in Events, Extended(l, e)
          PROVE  /\ Line(l)' \in Seq(Events) /\ InOrder(Line(l)', earlier)
                 /\ RaisedFor(Line(l)', raised, ListensTo[l])
      BY <2>1, <2>3, <3>2 DEF RaisedFor
    <3> QED
      BY <1>2, <3>1, <3>2, LineStep
  <2>6. LoggedInOrder'
    <3> SUFFICES ASSUME NEW l \in Listeners
                 PROVE  InOrder(Line(l)', earlier') /\ RaisedFor(Line(l)', raised', ListensTo[l])
      BY DEF LoggedInOrder, InOrder, RaisedFor, RangeOf
    <3>1. PICK n \in Seq(Events) : n = Line(l)'
      BY <2>5
    <3>2. InOrder(n, earlier) /\ RaisedFor(n, raised, ListensTo[l])
      BY <2>5, <3>1
    <3>3. \A i \in 1 .. Len(n) : n[i] \in RangeOf(n) /\ n[i] \in Events
      BY ElementOfSeq DEF RangeOf
    <3>4. \A e \in RangeOf(n) : e \in Events
      BY ElementOfSeq DEF RangeOf
    <3>5. \A i \in 1 .. Len(n) : earlier'[n[i]] = earlier[n[i]]
      BY <2>4, <3>2, <3>3 DEF RaisedFor
    <3>6. InOrder(n, earlier')
      BY <3>2, <3>5 DEF InOrder
    <3>7. RaisedFor(n, raised', ListensTo[l])
      BY <2>4, <3>2, <3>4 DEF RaisedFor
    <3> QED
      BY <3>1, <3>6, <3>7
  <2>7. OfferedOnce'
    <3> SUFFICES ASSUME NEW e \in Events, NEW l \in Listeners, fan'[e] = "called" \/ l \in left'[e]
                 PROVE  e \notin RangeOf(Line(l)')
      BY DEF OfferedOnce, RangeOf
    <3>1. fan[e] = "called" \/ l \in left[e] \/ e = Len(raised) + 1
      BY FanStep
    <3>2. e \notin RangeOf(Line(l))
      <4>1. CASE e = Len(raised) + 1
        BY <2>1, <4>1, LenProperties DEF RaisedFor, TypeOK
      <4> QED
        BY <3>1, <4>1 DEF OfferedOnce
    <3>3. CASE Kept(l) \/ Cut(l)
      BY <2>2, <3>2, <3>3
    <3>4. ASSUME NEW d \in Events, Extended(l, d)
          PROVE  e \notin RangeOf(Line(l)')
      <4>1. d # e
        BY <2>3, <3>4 DEF Extended
      <4> QED
        BY <2>3, <3>2, <3>4, <4>1
    <3> QED
      BY <1>2, <3>3, <3>4, LineStep
  <2> QED
    BY <2>6, <2>7
<1> QED
  BY <1>1, <1>2

\* A listener logs no alarm twice, none of another section, and one that had been offered to
\* all before those raised after that, whatever breaks between the location service and the
\* log.
THEOREM LoggedInOrderHolds == Spec => []LoggedInOrder
<1>1. Init => QueueOK /\ FanOK /\ OfferedOnce /\ LoggedInOrder
  <2> SUFFICES ASSUME Init PROVE QueueOK /\ FanOK /\ OfferedOnce /\ LoggedInOrder
    OBVIOUS
  <2>1. QueueOK /\ FanOK
    BY DEF Init, QueueOK, FanOK
  <2>2. ASSUME NEW l \in Listeners
        PROVE  Line(l) = << >>
    <3>1. log[l] = << >> /\ wire[l] = << >> /\ chan[l] = << >> /\ pc[l] = "idle"
      BY DEF Init, Tasks
    <3>2. Line(l) = ((<< >> \o << >>) \o << >>) \o << >>
      BY <3>1 DEF Line
    <3> QED
      BY <3>2
  <2>3. LoggedInOrder /\ OfferedOnce
    BY <2>2 DEF LoggedInOrder, OfferedOnce, RangeOf
  <2> QED
    BY <2>1, <2>3
<1>2. TypeOK /\ InHand /\ PushedAfterLog /\ QueueOK /\ FanOK /\ OfferedOnce /\ LoggedInOrder
        /\ [Next]_vars => (QueueOK /\ FanOK /\ OfferedOnce /\ LoggedInOrder)'
  BY QueueStep, FanStep, OrderStep
<1> QED
  BY <1>1, <1>2, TypeCorrect, PTL DEF Spec

\* No message is in the queue twice and no queued task is running.
THEOREM QueueSound == Spec => []QueueOK
<1>1. Init => QueueOK
  BY DEF Init, QueueOK
<1>2. TypeOK /\ QueueOK /\ [Next]_vars => QueueOK'
  BY QueueStep
<1> QED
  BY <1>1, <1>2, TypeCorrect, PTL DEF Spec

\* What a channel has accepted is on its line until it is logged, as long as the stream is
\* up: no hand-over drops an alarm.
THEOREM AcceptedIsLoggedHolds == Spec => AcceptedIsLogged
<1>1. TypeOK /\ InHand /\ QueueOK /\ [Next]_vars
        => [\A l \in Listeners :
              stream[l] = "open" /\ stream'[l] = "open" =>
                RangeOf(Line(l)) \subseteq RangeOf(Line(l)')]_vars
  <2> SUFFICES ASSUME TypeOK, InHand, QueueOK, Next, NEW l \in Listeners,
                      stream'[l] = "open"
               PROVE  RangeOf(Line(l)) \subseteq RangeOf(Line(l)')
    OBVIOUS
  <2>1. CASE Kept(l)
    BY <2>1 DEF Kept
  <2>2. ASSUME NEW e \in Events, Extended(l, e)
        PROVE  RangeOf(Line(l)) \subseteq RangeOf(Line(l)')
    BY <2>2, LineIsSeq, RangeOfAppend DEF Extended
  <2> QED
    BY <2>1, <2>2, LineStep DEF Cut
<1> QED
  BY <1>1, TypeCorrect, QueueSound, PTL DEF Spec, AcceptedIsLogged
=============================================================================
