----------------------------- MODULE AlarmPipeline -----------------------------
(***************************************************************************)
(* From an alarm in the location service to the administrators' screens.   *)
(*                                                                         *)
(* The Go service raises an alarm for a section while it handles a GPS     *)
(* ping or polls the vehicles, and offers it to the channels registered    *)
(* for that section, one after the other, without waiting for room         *)
(* (location_service.go, fanOut).  Every call and the poller does so in    *)
(* a goroutine of its own, under a lock that readers share: two alarms go  *)
(* through the channels at once, in any order.  The AlarmStream handler    *)
(* moves events from its channel to the wire.  On the other end a Celery   *)
(* task per approved section (monitoring/tasks.py,      *)
(* listen_alarm_stream) writes each event to AlarmLog and pushes it to two *)
(* groups of WebSockets (tablet/consumers.py, AdminAlarmConsumer).         *)
(*                                                                         *)
(* A listener never returns while its day is approved: it holds its worker *)
(* process until the stream ends, and only the deadline of an hour ends a  *)
(* healthy one.  The workers also run notify_nearby_employees, the task    *)
(* that tells crews of an incident.                                        *)
(***************************************************************************)
EXTENDS Integers, Sequences, FiniteSets

CONSTANTS
  Sections,     \* the duty sections
  Listeners,    \* runs of approve_duty_day's loop over a section: one task message each
  ListensTo,    \* ListensTo[l] : the section of listener l
  Incidents,    \* incidents whose crews are to be notified: one task message each
  Slots,        \* processes of the Celery worker
  Buffer,       \* capacity of a listener's channel (32 in the handler)
  Window,       \* events the transport takes before it blocks the handler
  Admins,       \* connected administrators
  District,     \* District[s] : the district of the section's organization, or None
  AdminDistrict,\* AdminDistrict[a] : the administrator's; None also for a super admin
  None,         \* no district
  MaxEvents,    \* bound: alarms raised
  MaxFailures   \* bound: broken streams, failed steps and killed workers

ASSUME PipelineAssumption ==
  /\ ListensTo \in [Listeners -> Sections]
  /\ Listeners \cap Incidents = {}
  /\ Slots \in Nat \ {0} /\ Buffer \in Nat \ {0} /\ Window \in Nat \ {0}
  /\ District \in [Sections -> STRING \cup {None}]
  /\ AdminDistrict \in [Admins -> STRING \cup {None}]
  /\ None # "all" /\ \A s \in Sections : District[s] # "all"
  /\ MaxEvents \in Nat /\ MaxFailures \in Nat

VARIABLES
  approved,     \* approved[s] : the status of the section's day is APPROVED
  queue,        \* the broker's queue of task messages
  pc,           \* pc[t]       : where task t is
  cur,          \* cur[l]      : the event listener l is handling, 0 if none
  stream,       \* stream[l]   : the AlarmStream call of l
  chan,         \* chan[l]     : the channel of its handler in the location service
  wire,         \* wire[l]     : events sent that l has not taken yet
  raised,       \* raised[e]   : the section alarm e was raised for
  fan,          \* fan[e]      : where the call of fanOut for alarm e is
  left,         \* left[e]     : the channels its loop has not come to
  earlier,      \* earlier[e]  : the alarms whose calls had returned when e was raised
  log,          \* log[l]      : the alarms l has written to AlarmLog, in order
  joined,       \* joined[a]   : how many of its groups administrator a has joined
  received,     \* received[a] : the alarms that were pushed to a
  failures      \* failures so far

taskVars   == <<approved, queue, pc>>
streamVars == <<cur, stream, chan, wire>>
fanVars    == <<raised, fan, left, earlier>>
adminVars  == <<joined, received>>
vars == <<taskVars, streamVars, fanVars, log, adminVars, failures>>

Tasks    == Listeners \cup Incidents
Handling == {"log", "district", "all"}
Working  == {"check", "open", "listen", "notify"} \cup Handling
Events   == 1 .. MaxEvents

TypeOK ==
  /\ approved \in [Sections -> BOOLEAN]
  /\ queue    \in Seq(Tasks)
  /\ pc       \in [Tasks -> Working \cup {"idle", "queued", "waiting", "done", "lost"}]
  /\ cur      \in [Listeners -> 0 .. MaxEvents]
  /\ stream   \in [Listeners -> {"closed", "opening", "open", "broken"}]
  /\ chan     \in [Listeners -> Seq(Events)] /\ \A l \in Listeners : Len(chan[l]) <= Buffer
  /\ wire     \in [Listeners -> Seq(Events)] /\ \A l \in Listeners : Len(wire[l]) <= Window
  /\ raised   \in Seq(Sections) /\ Len(raised) <= MaxEvents
  /\ fan      \in [Events -> {"none", "called", "looping", "returned"}]
  /\ left     \in [Events -> SUBSET Listeners]
  /\ earlier  \in [Events -> SUBSET Events]
  /\ log      \in [Listeners -> Seq(Events)]
  /\ joined   \in [Admins -> 0 .. 2]
  /\ received \in [Admins -> SUBSET Events]
  /\ failures \in 0 .. MaxFailures

\* The days have just been approved; approve_duty_day is about to queue the listeners.
Init ==
  /\ approved = [s \in Sections |-> TRUE]
  /\ queue    = << >>
  /\ pc       = [t \in Tasks |-> "idle"]
  /\ cur      = [l \in Listeners |-> 0]
  /\ stream   = [l \in Listeners |-> "closed"]
  /\ chan     = [l \in Listeners |-> << >>]
  /\ wire     = [l \in Listeners |-> << >>]
  /\ raised   = << >>
  /\ fan      = [e \in Events |-> "none"]
  /\ left     = [e \in Events |-> {}]
  /\ earlier  = [e \in Events |-> {}]
  /\ log      = [l \in Listeners |-> << >>]
  /\ joined   = [a \in Admins |-> 0]
  /\ received = [a \in Admins |-> {}]
  /\ failures = 0

Goto(t, step) == pc' = [pc EXCEPT ![t] = step]
Fail == failures < MaxFailures /\ failures' = failures + 1

\* The call of l is over: what is left in the channel and on the wire is gone.
Hang(l, state) ==
  /\ stream' = [stream EXCEPT ![l] = state]
  /\ chan'   = [chan EXCEPT ![l] = << >>]
  /\ wire'   = [wire EXCEPT ![l] = << >>]

-----------------------------------------------------------------------------
(* The task queue and the worker.                                                    *)

\* delay(): the loop of approve_duty_day reaches the section, or an incident arrives.
Launch(t) ==
  /\ pc[t] = "idle"
  /\ queue' = Append(queue, t)
  /\ Goto(t, "queued")
  /\ UNCHANGED <<approved, streamVars, fanVars, log, adminVars, failures>>

\* A free process takes the oldest message, which is acknowledged at once.
StartTask ==
  /\ queue # << >>
  /\ Cardinality({t \in Tasks : pc[t] \in Working}) < Slots
  /\ queue' = Tail(queue)
  /\ Goto(Head(queue), IF Head(queue) \in Listeners THEN "check" ELSE "notify")
  /\ UNCHANGED <<approved, streamVars, fanVars, log, adminVars, failures>>

\* notify_nearby_employees runs to its end.
Notify(i) ==
  /\ pc[i] = "notify"
  /\ Goto(i, "done")
  /\ UNCHANGED <<approved, queue, streamVars, fanVars, log, adminVars, failures>>

\* A rejection that was decided before the approval is saved after it, the lost update of
\* DutyDay: the day is not APPROVED any more, its listeners run on.
Withdraw(s) ==
  /\ approved[s]
  /\ approved' = [approved EXCEPT ![s] = FALSE]
  /\ UNCHANGED <<queue, pc, streamVars, fanVars, log, adminVars, failures>>

-----------------------------------------------------------------------------
(* A listener.                                                                       *)

\* Variant: the status of the day is not looked at again.
Check_NoStatus(l) ==
  /\ pc[l] = "check"
  /\ Goto(l, "open")
  /\ UNCHANGED <<approved, queue, streamVars, fanVars, log, adminVars, failures>>

Check(l) ==
  /\ pc[l] = "check"
  /\ Goto(l, IF approved[ListensTo[l]] THEN "open" ELSE "done")
  /\ UNCHANGED <<approved, queue, streamVars, fanVars, log, adminVars, failures>>

\* The call returns an iterator at once; the handler is not running yet.
Open(l) ==
  /\ pc[l] = "open"
  /\ Goto(l, "listen")
  /\ stream' = [stream EXCEPT ![l] = "opening"]
  /\ UNCHANGED <<approved, queue, cur, chan, wire, fanVars, log, adminVars, failures>>

\* Variant: events about nobody the site knows are skipped.
Take_KnownOnly(l) ==
  /\ pc[l] = "listen"
  /\ wire[l] # << >>
  /\ \/ Goto(l, "log") /\ cur' = [cur EXCEPT ![l] = Head(wire[l])]
     \/ UNCHANGED <<pc, cur>>
  /\ wire' = [wire EXCEPT ![l] = Tail(@)]
  /\ UNCHANGED <<approved, queue, stream, chan, fanVars, log, adminVars, failures>>

\* Variant: the push goes out first and the row is written by another task.
Take_PushFirst(l) ==
  /\ pc[l] = "listen"
  /\ wire[l] # << >>
  /\ Goto(l, "district")
  /\ cur'  = [cur EXCEPT ![l] = Head(wire[l])]
  /\ wire' = [wire EXCEPT ![l] = Tail(@)]
  /\ UNCHANGED <<approved, queue, stream, chan, fanVars, log, adminVars, failures>>

\* The next event, and the employee it is about, who may be unknown.
Take(l) ==
  /\ pc[l] = "listen"
  /\ wire[l] # << >>
  /\ Goto(l, "log")
  /\ cur'  = [cur EXCEPT ![l] = Head(wire[l])]
  /\ wire' = [wire EXCEPT ![l] = Tail(@)]
  /\ UNCHANGED <<approved, queue, stream, chan, fanVars, log, adminVars, failures>>

WriteLog(l) ==
  /\ pc[l] = "log"
  /\ log' = [log EXCEPT ![l] = Append(@, cur[l])]
  /\ Goto(l, "district")
  /\ UNCHANGED <<approved, queue, streamVars, fanVars, adminVars, failures>>

\* The groups of administrator a, in the order it joins them.
GroupsOf(a) == IF AdminDistrict[a] = None THEN <<"all">> ELSE <<"all", AdminDistrict[a]>>

\* group_send: everybody who has joined group g gets event e.
Push(g, e) ==
  received' = [a \in Admins |->
    received[a] \cup (IF \E n \in 1 .. joined[a] : GroupsOf(a)[n] = g THEN {e} ELSE {})]

\* To the group of the section's district, to everybody when it has none.
PushDistrict(l) ==
  LET d == District[ListensTo[l]]
  IN  /\ pc[l] = "district"
      /\ Push(IF d = None THEN "all" ELSE d, cur[l])
      /\ Goto(l, "all")
      /\ UNCHANGED <<approved, queue, streamVars, fanVars, log, joined, failures>>

\* And to everybody.
PushAll(l) ==
  /\ pc[l] = "all"
  /\ Push("all", cur[l])
  /\ Goto(l, "listen")
  /\ cur' = [cur EXCEPT ![l] = 0]
  /\ UNCHANGED <<approved, queue, stream, chan, wire, fanVars, log, joined, failures>>

\* Variant: the task ends with its stream.
StreamError_End(l) ==
  /\ pc[l] = "listen" /\ stream[l] = "broken"
  /\ Goto(l, "done")
  /\ Hang(l, "closed")
  /\ UNCHANGED <<approved, queue, cur, fanVars, log, adminVars, failures>>

\* The iterator raises: self.retry puts the task away for 15 s and frees the process.
StreamError(l) ==
  /\ pc[l] = "listen" /\ stream[l] = "broken"
  /\ Goto(l, "waiting")
  /\ Hang(l, "closed")
  /\ UNCHANGED <<approved, queue, cur, fanVars, log, adminVars, failures>>

\* The countdown of the retry is over.
Requeue(l) ==
  /\ pc[l] = "waiting"
  /\ queue' = Append(queue, l)
  /\ Goto(l, "queued")
  /\ UNCHANGED <<approved, streamVars, fanVars, log, adminVars, failures>>

\* The call, the row or a push fails: the event at hand is dropped, the task retried.
StepFails(l) ==
  /\ pc[l] \in {"open"} \cup Handling
  /\ Goto(l, "waiting")
  /\ cur' = [cur EXCEPT ![l] = 0]
  /\ Hang(l, "closed")
  /\ Fail
  /\ UNCHANGED <<approved, queue, fanVars, log, adminVars>>

\* The worker process is killed: the message was acknowledged, the task does not return.
Killed(t) ==
  /\ pc[t] \in Working
  /\ Goto(t, "lost")
  /\ IF t \in Listeners THEN Hang(t, "closed") /\ cur' = [cur EXCEPT ![t] = 0]
                        ELSE UNCHANGED streamVars
  /\ Fail
  /\ UNCHANGED <<approved, queue, fanVars, log, adminVars>>

-----------------------------------------------------------------------------
(* The location service and the transport.                                           *)

\* A fanOut is in its loop, and holds the read lock.
Locked == \E e \in Events : fan[e] = "looping"

\* The handler makes its channel and registers it, which takes the lock for itself.
Register(l) ==
  /\ stream[l] = "opening"
  /\ ~ Locked
  /\ stream' = [stream EXCEPT ![l] = "open"]
  /\ UNCHANGED <<taskVars, cur, chan, wire, fanVars, log, adminVars, failures>>

\* A ping or a position of a vehicle raises an alarm: it gets its time and is handed to
\* fanOut.
Raise(s) ==
  LET e == Len(raised) + 1
  IN  /\ Len(raised) < MaxEvents
      /\ raised'  = Append(raised, s)
      /\ fan'     = [fan EXCEPT ![e] = "called"]
      /\ earlier' = [earlier EXCEPT ![e] = {d \in Events : fan[d] = "returned"}]
      /\ UNCHANGED <<taskVars, streamVars, left, log, adminVars, failures>>

\* fanOut has the read lock, beside any others, and loops over the channels of the section.
\* The channel of a call that is over may still be among them, but nobody reads it.
FanOut(e) ==
  /\ fan[e] = "called"
  /\ fan'  = [fan EXCEPT ![e] = "looping"]
  /\ left' = [left EXCEPT ![e] = {l \in Listeners : ListensTo[l] = raised[e] /\ stream[l] = "open"}]
  /\ UNCHANGED <<taskVars, streamVars, raised, earlier, log, adminVars, failures>>

\* The loop comes to the channel of l, which takes the event if it has room.  (The order of
\* the channels, that of their registration, is left open.)
Offer(e, l) ==
  /\ l \in left[e]
  /\ left' = [left EXCEPT ![e] = @ \ {l}]
  /\ chan' = [chan EXCEPT ![l] = IF stream[l] = "open" /\ Len(@) < Buffer THEN Append(@, e) ELSE @]
  /\ UNCHANGED <<taskVars, cur, stream, wire, raised, fan, earlier, log, adminVars, failures>>

\* Variant: the loop runs in a goroutine, fanOut does not wait for it.
FanOutReturns_AtOnce(e) ==
  /\ fan[e] = "looping"
  /\ fan' = [fan EXCEPT ![e] = "returned"]
  /\ UNCHANGED <<taskVars, streamVars, raised, left, earlier, log, adminVars, failures>>

\* The loop is through: the lock is released, and the goroutine may raise its next alarm.
FanOutReturns(e) ==
  /\ fan[e] = "looping" /\ left[e] = {}
  /\ fan' = [fan EXCEPT ![e] = "returned"]
  /\ UNCHANGED <<taskVars, streamVars, raised, left, earlier, log, adminVars, failures>>

Forward(l) ==
  /\ stream[l] = "open"
  /\ chan[l] # << >> /\ Len(wire[l]) < Window
  /\ wire' = [wire EXCEPT ![l] = Append(@, Head(chan[l]))]
  /\ chan' = [chan EXCEPT ![l] = Tail(@)]
  /\ UNCHANGED <<taskVars, cur, stream, fanVars, log, adminVars, failures>>

\* Variant: the call has no deadline.
HourPasses_Never(l) == l \notin Listeners /\ UNCHANGED vars

\* timeout=3600: the deadline of the call passes.
HourPasses(l) ==
  /\ stream[l] \in {"opening", "open"}
  /\ Hang(l, "broken")
  /\ UNCHANGED <<taskVars, cur, fanVars, log, adminVars, failures>>

\* The connection is lost or the location service restarts.
Break(l) ==
  /\ stream[l] \in {"opening", "open"}
  /\ Hang(l, "broken")
  /\ Fail
  /\ UNCHANGED <<taskVars, cur, fanVars, log, adminVars>>

-----------------------------------------------------------------------------
(* The administrators' WebSockets.                                                   *)

\* connect adds the consumer to its groups one after the other.
Join(a) ==
  /\ joined[a] < Len(GroupsOf(a))
  /\ joined' = [joined EXCEPT ![a] = @ + 1]
  /\ UNCHANGED <<taskVars, streamVars, fanVars, log, received, failures>>

Leave(a) ==
  /\ joined[a] > 0
  /\ joined' = [joined EXCEPT ![a] = 0]
  /\ UNCHANGED <<taskVars, streamVars, fanVars, log, received, failures>>

-----------------------------------------------------------------------------
ListenerSteps(l) ==
  Check(l) \/ Open(l) \/ Take(l) \/ WriteLog(l) \/ PushDistrict(l) \/ PushAll(l)
    \/ StreamError(l)

Next ==
  \/ \E t \in Tasks : Launch(t) \/ Killed(t)
  \/ StartTask
  \/ \E i \in Incidents : Notify(i)
  \/ \E s \in Sections : Withdraw(s) \/ Raise(s)
  \/ \E e \in Events : FanOut(e) \/ FanOutReturns(e) \/ \E l \in Listeners : Offer(e, l)
  \/ \E l \in Listeners : ListenerSteps(l) \/ Requeue(l) \/ StepFails(l) \/ Register(l)
       \/ Forward(l) \/ HourPasses(l) \/ Break(l)
  \/ \E a \in Admins : Join(a) \/ Leave(a)

Spec == Init /\ [][Next]_vars

\* The worker takes messages and gets on with its tasks, and the clock runs: deadlines
\* and countdowns pass.  Nothing is owed by the approving request, the transport, the
\* administrators or chance.
Fairness ==
  /\ WF_vars(StartTask)
  /\ \A i \in Incidents : WF_vars(Notify(i))
  /\ \A l \in Listeners :
       WF_vars(ListenerSteps(l)) /\ WF_vars(Requeue(l)) /\ WF_vars(HourPasses(l))

FairSpec == Spec /\ Fairness

-----------------------------------------------------------------------------
(* Safety.                                                                           *)

RangeOf(q) == {q[n] : n \in 1 .. Len(q)}

\* What listener l has logged and what it will log if nothing fails, in order.
Line(l) == log[l] \o (IF pc[l] = "log" THEN <<cur[l]>> ELSE << >>) \o wire[l] \o chan[l]

\* Two alarms raised at once may reach the listeners of a section in different orders.  But
\* one that had been offered to all of them when another was raised, such as those of one ping
\* or of one round of the poller, is logged before it, whatever buffers, retries and
\* reconnections lie between; and a listener logs none twice, and only those of its section.
LoggedInOrder ==
  \A l \in Listeners :
    /\ \A m, n \in 1 .. Len(Line(l)) :
         m < n => Line(l)[m] # Line(l)[n] /\ Line(l)[n] \notin earlier[Line(l)[m]]
    /\ \A e \in RangeOf(Line(l)) : e <= Len(raised) /\ raised[e] = ListensTo[l]

\* Nobody is shown an alarm that AlarmLog does not have, whatever fails in between.
PushedIsLogged ==
  \A a \in Admins : \A e \in received[a] : \E l \in Listeners : e \in RangeOf(log[l])

\* An alarm a handler has accepted is lost only with its stream: no step of a stream that
\* stays up drops one, and one taken from the stream is logged before the next is.
AcceptedIsLogged ==
  [][\A l \in Listeners :
       stream[l] = "open" /\ stream'[l] = "open" =>
         RangeOf(Line(l)) \subseteq RangeOf(Line(l)')]_vars

-----------------------------------------------------------------------------
(* Liveness.                                                                         *)

\* "Stream uzilsa - 15 soniyadan keyin qayta urinadi": while its day is approved a listener
\* that was queued or lost its stream calls the service again, though the processes are
\* fewer than the sections, unless a worker died under it.
ListenerComesBack ==
  \A l \in Listeners :
    pc[l] \in {"queued", "waiting"} \/ stream[l] = "broken" ~>
      stream[l] = "opening" \/ pc[l] = "lost" \/ ~ approved[ListensTo[l]]

\* Listeners that hold every process do not keep the crews from hearing of an incident.
IncidentsNotified == \A i \in Incidents : pc[i] = "queued" ~> pc[i] \in {"done", "lost"}

\* A listener whose day is no longer approved stops at its next retry and stays stopped.
WithdrawnStops ==
  \A l \in Listeners :
    ~ approved[ListensTo[l]] ~> [](pc[l] \in {"idle", "done", "lost"})

=============================================================================
