---------------------------- MODULE IncidentAlerts ----------------------------
(* A card of the 112 service: its receipt, the Celery task that looks for the employees on    *)
(* duty near it, the notification rows it writes and the alerts it pushes to their tablets.   *)
(* TabletSession has the tablets' sockets.  Distance is abstracted to being at the same place. *)
EXTENDS TabletSession

CONSTANTS Cards, Places,
          Sections, Crew,   \* the sections of today's duty days; Crew[s]: the employees of one
          Tasks,            \* processes of the Celery worker, each running one task at a time
          MaxReceipts,      \* bound on the deliveries of a card
          MaxMishaps        \* bound on lost calls and killed processes

VARIABLES
  section,   \* "planned", "viewed" (not approved, DutyInfo answers for it), "approved",
             \* "tracked" (approved, DutyInfo answers for it), "over"
  position,  \* last place the location service has of an employee; Nowhere: none, or far off
  place,     \* the Incident112 row of a card: "unknown", Nowhere (no coordinates) or a place
  receipts,  \* deliveries of a card so far
  saved,     \* requests that saved the card and have not queued its task
  queue,     \* messages notify_nearby_employees(card) in the queue
  task,      \* what a process runs and remembers
  row,       \* the Incident112Notification row of a card and an employee
  heard,     \* <<token, card>>: a socket got a push of the card
  fresh,     \* cards that no task has loaded since they were last saved
  unheard,   \* <<card, section>>: a failure kept a task from alerting the section's crew
  mishaps    \* bounded by MaxMishaps

cardVars == <<place, receipts, saved, queue>>
alertsVars == <<sessionVars, section, position, cardVars, task, row, heard, fresh, unheard, mishaps>>

Nowhere == "nowhere"

ASSUME AlertsAssumption ==
  /\ Crew \in [Sections -> SUBSET Employees]
  /\ MaxReceipts \in Nat /\ MaxMishaps \in Nat

IdleTask == [pc |-> "idle"]
\* A task between two statements.  near: the employees found, not yet alerted.
TaskStates ==
  {IdleTask}
    \cup [pc : {"load"}, card : Cards, place : Places]
    \cup [pc : {"ask"}, card : Cards, place : Places, todo : SUBSET Sections,
          crew : SUBSET Employees, near : SUBSET Employees]
    \cup [pc : {"alert"}, card : Cards, near : SUBSET Employees]
    \cup [pc : {"push"}, card : Cards, near : SUBSET Employees, to : Employees]

AlertsTypeOK ==
  /\ SessionTypeOK
  /\ section \in [Sections -> {"planned", "viewed", "approved", "tracked", "over"}]
  /\ position \in [Employees -> Places \cup {Nowhere}]
  /\ place \in [Cards -> Places \cup {"unknown", Nowhere}]
  /\ receipts \in [Cards -> 0..MaxReceipts]
  /\ saved \in [Cards -> 0..MaxReceipts] /\ queue \in [Cards -> 0..MaxReceipts]
  /\ task \in [Tasks -> TaskStates]
  /\ row \in [Cards -> [Employees -> {"none", "unread", "read"}]]
  /\ heard \subseteq Tokens \X Cards
  /\ fresh \subseteq Cards /\ unheard \subseteq Cards \X Sections
  /\ mishaps \in 0..MaxMishaps

AlertsInit ==
  /\ SessionInit
  /\ section = [s \in Sections |-> "planned"]
  /\ position \in [Employees -> Places \cup {Nowhere}]
  /\ place = [c \in Cards |-> "unknown"]
  /\ receipts = [c \in Cards |-> 0]
  /\ saved = [c \in Cards |-> 0] /\ queue = [c \in Cards |-> 0]
  /\ task = [t \in Tasks |-> IdleTask]
  /\ row = [c \in Cards |-> [e \in Employees |-> "none"]]
  /\ heard = {} /\ fresh = {} /\ unheard = {}
  /\ mishaps = 0

------------------------------------------------------------------------------
(* The duty and the tablets around it: DutyDay, SectionTracking and PointPatrol have them in detail. *)

\* A day is approved, a section's duty is opened and stopped in the location service, the live
\* map opens it for a day on its way to approval, and midnight ends what "today" selects.
SectionMoves(s) ==
  /\ \/ section[s] = "planned" /\ \E to \in {"viewed", "approved"} : section' = [section EXCEPT ![s] = to]
     \/ section[s] \in {"viewed", "approved"} /\ section' = [section EXCEPT ![s] = "tracked"]
     \/ section[s] = "tracked" /\ section' = [section EXCEPT ![s] = "approved"]
     \/ section[s] \notin {"planned", "over"} /\ section' = [section EXCEPT ![s] = "over"]
  /\ UNCHANGED <<sessionVars, position, cardVars, task, row, heard, fresh, unheard, mishaps>>

Moves(e) ==
  /\ \E p \in (Places \cup {Nowhere}) \ {position[e]} : position' = [position EXCEPT ![e] = p]
  /\ UNCHANGED <<sessionVars, section, cardVars, task, row, heard, fresh, unheard, mishaps>>

Tablets ==
  /\ SessionNext
  /\ UNCHANGED <<section, position, cardVars, task, row, heard, fresh, unheard, mishaps>>

------------------------------------------------------------------------------
(* Receipt *)

\* Incident112ReceiveView.post: update_or_create by the unique card number.
Receive(c) ==
  /\ receipts[c] < MaxReceipts
  /\ receipts' = [receipts EXCEPT ![c] = @ + 1]
  /\ saved' = [saved EXCEPT ![c] = @ + 1]
  /\ \E p \in Places \cup {Nowhere} : place' = [place EXCEPT ![c] = p]
  /\ fresh' = fresh \cup {c}
  /\ UNCHANGED <<sessionVars, section, position, queue, task, row, heard, unheard, mishaps>>

\* A wrong form: only a new card is looked at.
Enqueue_NewOnly(c) ==
  /\ saved[c] > 0
  /\ saved' = [saved EXCEPT ![c] = @ - 1]
  /\ queue' = [queue EXCEPT ![c] = IF receipts[c] = 1 THEN @ + 1 ELSE @]
  /\ UNCHANGED <<sessionVars, section, position, place, receipts, task, row, heard, fresh, unheard, mishaps>>

\* notify_nearby_employees.delay, for a card that is new and for one that was there.
Enqueue(c) ==
  /\ saved[c] > 0
  /\ saved' = [saved EXCEPT ![c] = @ - 1]
  /\ queue' = [queue EXCEPT ![c] = @ + 1]
  /\ UNCHANGED <<sessionVars, section, position, place, receipts, task, row, heard, fresh, unheard, mishaps>>

\* What a failure takes from the crews it would have reached.
Loses(lost) ==
  /\ mishaps < MaxMishaps
  /\ mishaps' = mishaps + 1
  /\ unheard' = unheard \cup lost
  /\ UNCHANGED <<sessionVars, section, position, place, receipts, row, heard, fresh>>

\* The broker refuses the message, or the server stops: the card is saved and no task queued.
ReceiptDies(c) ==
  /\ saved[c] > 0
  /\ saved' = [saved EXCEPT ![c] = @ - 1]
  /\ Loses({c} \X Sections)
  /\ UNCHANGED <<queue, task>>

------------------------------------------------------------------------------
(* The task notify_nearby_employees *)

\* A process takes the message, which is acknowledged by that, and loads the card.
Take(t, c) ==
  /\ task[t] = IdleTask /\ queue[c] > 0
  /\ queue' = [queue EXCEPT ![c] = @ - 1]
  /\ task' = [task EXCEPT ![t] = IF place[c] = Nowhere THEN IdleTask
                                 ELSE [pc |-> "load", card |-> c, place |-> place[c]]]
  /\ fresh' = fresh \ {c}
  /\ UNCHANGED <<sessionVars, section, position, place, receipts, saved, row, heard, unheard, mishaps>>

\* What a task does after the last section, and after the last employee.
Alerting(c, near) == IF near = {} THEN IdleTask ELSE [pc |-> "alert", card |-> c, near |-> near]
Asking(c, p, todo, crew, near) ==
  IF todo = {} THEN Alerting(c, near)
  ELSE [pc |-> "ask", card |-> c, place |-> p, todo |-> todo, crew |-> crew, near |-> near]

Steps(t, next) ==
  /\ task' = [task EXCEPT ![t] = next]
  /\ UNCHANGED <<sessionVars, section, position, cardVars, fresh, unheard, mishaps>>

\* A wrong form: the status of the day is not asked for.
LoadSections_AnyStatus(t) ==
  /\ task[t].pc = "load"
  /\ LET found == {s \in Sections : section[s] # "over"}
     IN  Steps(t, Asking(task[t].card, task[t].place, found, UNION {Crew[s] : s \in found}, {}))
  /\ UNCHANGED <<row, heard>>

\* Today's sections of approved days, with their crews.
LoadSections(t) ==
  /\ task[t].pc = "load"
  /\ LET found == {s \in Sections : section[s] \in {"approved", "tracked"}}
     IN  Steps(t, Asking(task[t].card, task[t].place, found, UNION {Crew[s] : s \in found}, {}))
  /\ UNCHANGED <<row, heard>>

\* The section is asked for, and its employees in close are found; one found before stays as found.
Found(t, s, close) ==
  Asking(task[t].card, task[t].place, task[t].todo \ {s}, task[t].crew, task[t].near \cup close)

\* grpc_location.duty_info of one section: the crew's last positions, or nothing for a section
\* without an active duty or with a polygon the service does not have.
AskSection(t, s) ==
  /\ task[t].pc = "ask" /\ s \in task[t].todo
  /\ \E answered \in {TRUE, FALSE} :
       /\ section[s] \in {"viewed", "tracked"} => answered
       /\ section[s] \in {"planned", "approved"} => ~answered
       /\ Steps(t, Found(t, s, {e \in Crew[s] \cap task[t].crew :
                                  answered /\ position[e] = task[t].place}))
  /\ UNCHANGED <<row, heard>>

\* The call fails, is logged and answers None like a section without a duty: nothing is retried.
AskFails(t, s) ==
  /\ task[t].pc = "ask" /\ s \in task[t].todo
  /\ Loses({<<task[t].card, s>>})
  /\ task' = [task EXCEPT ![t] = Found(t, s, {})]
  /\ UNCHANGED <<saved, queue>>

\* get_or_create of the notification row: a card sent again finds it and leaves it alone.
Record(t, e) ==
  /\ task[t].pc = "alert" /\ e \in task[t].near
  /\ row' = [row EXCEPT ![task[t].card][e] = IF @ = "none" THEN "unread" ELSE @]
  /\ Steps(t, [pc |-> "push", card |-> task[t].card, near |-> task[t].near \ {e}, to |-> e])
  /\ UNCHANGED heard

\* group_send: every socket in the employee's group, whichever session opened it.
Push(t) ==
  /\ task[t].pc = "push"
  /\ heard' = heard \cup ({k \in joined : k[1] = task[t].to} \X {task[t].card})
  /\ Steps(t, Alerting(task[t].card, task[t].near))
  /\ UNCHANGED row

\* The process is killed, or the row or the push fails: the task has no retry, the rest of the
\* crews is not alerted.
TaskDies(t) ==
  /\ task[t] # IdleTask
  /\ Loses({task[t].card} \X Sections)
  /\ task' = [task EXCEPT ![t] = IdleTask]
  /\ UNCHANGED <<saved, queue>>

------------------------------------------------------------------------------
(* Reading, over REST with a valid session, or over any socket that once had one *)

Read(k, c) ==
  /\ row[c][k[1]] = "unread"
  /\ row' = [row EXCEPT ![c][k[1]] = "read"]
  /\ UNCHANGED <<sessionVars, section, position, cardVars, task, heard, fresh, unheard, mishaps>>

ReadByCall(k, c) == Valid(k) /\ Read(k, c)
ReadBySocket(k, c) == k \in joined /\ Read(k, c)

\* The cards of the tablet's list.
ListedCards(e) == {c \in Cards : row[c][e] # "none"}

------------------------------------------------------------------------------
TaskGoesOn(t) ==
  \/ LoadSections(t) \/ Push(t)
  \/ \E s \in Sections : AskSection(t, s)
  \/ \E e \in Employees : Record(t, e)

AlertsNext ==
  \/ Tablets
  \/ \E s \in Sections : SectionMoves(s)
  \/ \E e \in Employees : Moves(e)
  \/ \E c \in Cards : Receive(c) \/ Enqueue(c) \/ ReceiptDies(c)
  \/ \E t \in Tasks, c \in Cards : Take(t, c)
  \/ \E t \in Tasks : TaskGoesOn(t) \/ TaskDies(t)
  \/ \E t \in Tasks, s \in Sections : AskFails(t, s)
  \/ \E k \in Tokens, c \in Cards : ReadByCall(k, c) \/ ReadBySocket(k, c)

AlertsSpec == AlertsInit /\ [][AlertsNext]_alertsVars

\* A request that saved a card goes on, a message is taken by some process of the worker, and a
\* task that runs goes on.  Nothing is assumed of duties, employees, tablets, or failures.
FairAlertsSpec ==
  /\ AlertsSpec
  /\ \A c \in Cards : WF_alertsVars(Enqueue(c)) /\ WF_alertsVars(\E t \in Tasks : Take(t, c))
  /\ \A t \in Tasks : WF_alertsVars(TaskGoesOn(t))

------------------------------------------------------------------------------
(* Properties *)

\* Whoever was pushed a card finds it in the list of the tablet, on whichever session: the
\* get_or_create comes before the group_send.
PushedIsListed == \A k \in Tokens, c \in Cards : <<k, c>> \in heard => c \in ListedCards(k[1])

\* "Faqat APPROVED statusdagi bugungi navbatchilik xodimlari": a card is recorded for the crews
\* of approved days only, though the live map has the service answer for others as well.
OnlyApprovedCrews ==
  \A e \in Employees : \A c \in ListedCards(e) :
    \E s \in Sections : e \in Crew[s] /\ section[s] \notin {"planned", "viewed"}

\* What the tables and the tablets show agrees with each other and with the duties.
AlertsConsistent == AlertsTypeOK /\ PushedIsListed /\ OnlyApprovedCrews

Near(c, s, e) == section[s] = "tracked" /\ place[c] \in Places /\ position[e] = place[c]

\* An employee who is near a card when it is received, or received again with another place,
\* and stays there on duty, gets its notification, unless a failure took the card from the
\* employee's section: other sections, tasks and deliveries of the card do not matter.
NearIsTold ==
  \A c \in Cards, s \in Sections : \A e \in Crew[s] :
    (c \in fresh /\ Near(c, s, e))
      ~> (c \in ListedCards(e) \/ ~Near(c, s, e) \/ <<c, s>> \in unheard)
===============================================================================
