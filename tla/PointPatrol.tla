----------------------------- MODULE PointPatrol -----------------------------
(***************************************************************************)
(* What the location service makes of positions: the calls Location of the *)
(* tablets (service/location_service.go, SaveLocation), which record       *)
(* visits of patrol points and raise OUT_OF_POLYGON and POINT_MISSED, and  *)
(* the poller that asks the vehicle tracker for positions every second.    *)
(*                                                                         *)
(* A call is a goroutine: it lists the active duties once and then goes    *)
(* through their assignments and points, a query at a time, while duties   *)
(* are stopped and points edited.  Its context ends when the caller's      *)
(* deadline passes; queries fail from then on, and what the code does with *)
(* the error differs from query to query.                                  *)
(*                                                                         *)
(* Distances and rays are abstracted to sets of places: a polygon is the   *)
(* places inside it, a point the places within its radius.  Alarms end at  *)
(* fanOut here; AlarmPipeline follows them from there.                     *)
(***************************************************************************)
EXTENDS FiniteSets, Naturals

CONSTANTS
  Requests,     \* goroutines that serve Location
  Duties, Posts,        \* duties and their assignments, inserted in one transaction
  Post,         \* Post[a] : duty, polygon, crew and cars of assignment a, which never change
  Polygons, Points, Employees, Vehicles, Places,
  Hours,        \* bound: the day has the hours 0 .. Hours - 1
  Windows,      \* pairs of a start and an end, either of which may be None
  MaxEdits,     \* bound: edits of points and polygons
  MaxFailures,  \* bound: deadlines that pass under a call
  None

Day == 0 .. Hours - 1

ASSUME PatrolAssumption ==
  /\ Hours \in Nat \ {0} /\ MaxEdits \in Nat /\ MaxFailures \in Nat
  /\ Windows \subseteq (Day \cup {None}) \X (Day \cup {None})
  /\ Post \in [Posts -> [duty : Duties, polygon : Polygons,
                         crew : SUBSET Employees, cars : SUBSET Vehicles]]
  /\ None \notin Duties \cup Posts \cup Polygons \cup Points \cup Employees \cup Vehicles
              \cup Places \cup Day

VARIABLES
  hour,         \* the service's clock
  duty,         \* duty[d]  : "unborn", "active", "stopped"
  shape,        \* shape[g] : the places inside polygon g
  point,        \* point[p] : the row of point p, NoPoint without one
  visits,       \* rows of point_visits: duty, employee, point
  alarms,       \* alarms[k] : how often alarm k was raised, modulo 2
  req,          \* req[r]   : the call goroutine r serves
  parked,       \* parked[v] : where vehicle v is, or None while its tracker is silent
  poll,         \* the poller
  edits, failures

world == <<duty, shape, point, edits>>
vars  == <<hour, world, visits, alarms, req, parked, poll, failures>>

PointRow == [polygon : Polygons, area : SUBSET Places, window : Windows]
NoPoint  == [polygon |-> None, area |-> {}, window |-> None]
Visit    == Duties \X Employees \X Points

\* An alarm: the duty, the employee or vehicle it is about, the missed point if any.
Alarm == Duties \X (Employees \cup Vehicles) \X (Points \cup {None})

\* What a call holds: its next statement; employee, place and hour; the assignments left,
\* the one at hand, and the points left of it, as they were when they were listed.  The
\* history known is the visits there were when the position arrived.
Idle == [pc |-> "idle", emp |-> None, at |-> None, hour |-> None, posts |-> {}, post |-> None,
         todo |-> {}, cur |-> None, expired |-> FALSE, known |-> {}]
Asleep == [pc |-> "wait", posts |-> {}, post |-> None, cars |-> {}, inside |-> {},
           fleet |-> [v \in Vehicles |-> None]]

Listed == Points \X PointRow

Request ==
  [pc : {"idle", "list", "post", "points", "point", "visit", "missed", "raise"},
   emp : Employees \cup {None}, at : Places \cup {None}, hour : Day \cup {None},
   posts : SUBSET Posts, post : Posts \cup {None}, todo : SUBSET Listed,
   cur : Listed \cup {None}, expired : BOOLEAN, known : SUBSET Visit]

TypeOK ==
  /\ hour   \in Day
  /\ duty   \in [Duties -> {"unborn", "active", "stopped"}]
  /\ shape  \in [Polygons -> SUBSET Places]
  /\ point  \in [Points -> PointRow \cup {NoPoint}]
  /\ visits \in SUBSET Visit
  /\ alarms \in [Alarm -> 0 .. 1]
  /\ req    \in [Requests -> Request]
  /\ parked \in [Vehicles -> Places \cup {None}]
  /\ poll   \in [pc : {"wait", "fetch", "polygon", "cars"}, posts : SUBSET Posts,
                 post : Posts \cup {None}, cars : SUBSET Vehicles, inside : SUBSET Places,
                 fleet : [Vehicles -> Places \cup {None}]]
  /\ edits \in 0 .. MaxEdits /\ failures \in 0 .. MaxFailures

Init ==
  /\ hour     = 0
  /\ duty     = [d \in Duties |-> "unborn"]
  /\ shape    \in [Polygons -> SUBSET Places]
  /\ point    = [p \in Points |-> NoPoint]
  /\ visits   = {}
  /\ alarms   = [k \in Alarm |-> 0]
  /\ req      = [r \in Requests |-> Idle]
  /\ parked   \in [Vehicles -> Places \cup {None}]
  /\ poll     = Asleep
  /\ edits    = 0
  /\ failures = 0

-----------------------------------------------------------------------------
(* The clock, the tables other calls write, and the vehicles.                        *)

Tick ==
  /\ hour' = (hour + 1) % Hours
  /\ UNCHANGED <<world, visits, alarms, req, parked, poll, failures>>

\* DutyCreate and DutyStop.
OpenDuty(d) ==
  /\ duty[d] = "unborn"
  /\ duty' = [duty EXCEPT ![d] = "active"]
  /\ UNCHANGED <<hour, shape, point, edits, visits, alarms, req, parked, poll, failures>>

StopDuty(d) ==
  /\ duty[d] = "active"
  /\ duty' = [duty EXCEPT ![d] = "stopped"]
  /\ UNCHANGED <<hour, shape, point, edits, visits, alarms, req, parked, poll, failures>>

\* PointCreate inserts or updates a point; PaligonCreate redraws a polygon.
SetPoint(p, row) ==
  /\ edits < MaxEdits
  /\ point' = [point EXCEPT ![p] = row]
  /\ edits' = edits + 1
  /\ UNCHANGED <<hour, duty, shape, visits, alarms, req, parked, poll, failures>>

Redraw(g, S) ==
  /\ edits < MaxEdits
  /\ shape' = [shape EXCEPT ![g] = S]
  /\ edits' = edits + 1
  /\ UNCHANGED <<hour, duty, point, visits, alarms, req, parked, poll, failures>>

Drive(v, x) ==
  /\ parked[v] # x
  /\ parked' = [parked EXCEPT ![v] = x]
  /\ UNCHANGED <<hour, world, visits, alarms, req, poll, failures>>

-----------------------------------------------------------------------------
(* A position of an employee.                                                         *)

At(r, step)   == req[r].pc = step
Becomes(r, m) == req' = [req EXCEPT ![r] = m]
Raise(k)      == alarms' = [alarms EXCEPT ![k] = 1 - @]

\* It arrives at r and its row is inserted.
SavePosition(r, e, x) ==
  /\ At(r, "idle")
  /\ Becomes(r, [Idle EXCEPT !.pc = "list", !.emp = e, !.at = x, !.known = visits])
  /\ UNCHANGED <<hour, world, visits, alarms, parked, poll, failures>>

\* The caller's deadline passes, or the caller goes away.
Expire(r) ==
  /\ ~ At(r, "idle") /\ ~ req[r].expired
  /\ failures < MaxFailures
  /\ failures' = failures + 1
  /\ Becomes(r, [req[r] EXCEPT !.expired = TRUE])
  /\ UNCHANGED <<hour, world, visits, alarms, parked, poll>>

Active(a) == duty[Post[a].duty] = "active"
\* The assignments of the active duties, loaded with their employees, that name the sender.
PostsOf(e) == {a \in Posts : Active(a) /\ e \in Post[a].crew}

\* Variant: stopped duties are listed as well.
ListDuties_Stopped(r) ==
  LET m == req[r]
      mine == {a \in Posts : duty[Post[a].duty] # "unborn" /\ m.emp \in Post[a].crew}
  IN  /\ At(r, "list")
      /\ Becomes(r, IF m.expired \/ mine = {} THEN Idle
                    ELSE [m EXCEPT !.pc = "post", !.hour = hour, !.posts = mine])
      /\ UNCHANGED <<hour, world, visits, alarms, parked, poll, failures>>

\* The active duties, and then the time; the assignments without the employee are skipped.
ListDuties(r) ==
  LET m == req[r]
      mine == PostsOf(m.emp)
  IN  /\ At(r, "list")
      /\ Becomes(r, IF m.expired \/ mine = {} THEN Idle
                    ELSE [m EXCEPT !.pc = "post", !.hour = hour, !.posts = mine])
      /\ UNCHANGED <<hour, world, visits, alarms, parked, poll, failures>>

\* A polygon that cannot be read is skipped with its points.
CheckPolygon(r) ==
  LET m == req[r]
  IN  /\ At(r, "post")
      /\ \E a \in m.posts :
           IF m.expired
             THEN /\ Becomes(r, IF m.posts = {a} THEN Idle ELSE [m EXCEPT !.posts = @ \ {a}])
                  /\ UNCHANGED alarms
             ELSE /\ Becomes(r, [m EXCEPT !.pc = "points", !.post = a, !.posts = @ \ {a}])
                  /\ IF m.at \in shape[Post[a].polygon] THEN UNCHANGED alarms
                     ELSE Raise(<<Post[a].duty, m.emp, None>>)
      /\ UNCHANGED <<hour, world, visits, parked, poll, failures>>

\* Where a call goes when it has the points S of its assignment left.
WithLeft(m, S) ==
  IF S # {} THEN [m EXCEPT !.pc = "point", !.todo = S, !.cur = None]
  ELSE IF m.posts # {} THEN [m EXCEPT !.pc = "post", !.post = None, !.todo = {}, !.cur = None]
  ELSE Idle

\* An error of the listing is ignored: there are no points then.
ListPoints(r) ==
  LET m == req[r]
      listed == {p \in Points : point[p].polygon = Post[m.post].polygon}
  IN  /\ At(r, "points")
      /\ Becomes(r, WithLeft(m, IF m.expired THEN {} ELSE {<<p, point[p]>> : p \in listed}))
      /\ UNCHANGED <<hour, world, visits, alarms, parked, poll, failures>>

InTime(h, w)  == w[1] = None \/ w[2] = None \/ (w[1] <= h /\ h <= w[2])
PastEnd(h, w) == w[2] # None /\ h > w[2]

Key(m, x) == <<Post[m.post].duty, m.emp, x[1]>>

\* HasPointVisit; both callers drop its error and go on with FALSE.
HasVisit(m, x) == ~ m.expired /\ Key(m, x) \in visits

\* After the first half of the loop: is the point's end over?
Later(m, x) ==
  IF PastEnd(m.hour, x[2].window) THEN [m EXCEPT !.pc = "missed", !.cur = x, !.todo = @ \ {x}]
  ELSE WithLeft(m, m.todo \ {x})

\* The next point: one that is near and open is looked up among the visits.
NextPoint(r) ==
  LET m == req[r]
  IN  /\ At(r, "point")
      /\ \E x \in m.todo :
           IF m.at \in x[2].area /\ InTime(m.hour, x[2].window) /\ ~ HasVisit(m, x)
             THEN Becomes(r, [m EXCEPT !.pc = "visit", !.cur = x, !.todo = @ \ {x}])
             ELSE Becomes(r, Later(m, x))
      /\ UNCHANGED <<hour, world, visits, alarms, parked, poll, failures>>

\* ON CONFLICT DO NOTHING; an error is dropped.
SaveVisit(r) ==
  LET m == req[r]
  IN  /\ At(r, "visit")
      /\ visits' = IF m.expired THEN visits ELSE visits \cup {Key(m, m.cur)}
      /\ Becomes(r, Later(m, m.cur))
      /\ UNCHANGED <<hour, world, alarms, parked, poll, failures>>

\* Variant: the second lookup is left out, as the first one was done.
CheckMissed_NoLookup(r) ==
  LET m == req[r]
  IN  /\ At(r, "missed")
      /\ Becomes(r, [m EXCEPT !.pc = "raise"])
      /\ UNCHANGED <<hour, world, visits, alarms, parked, poll, failures>>

CheckMissed(r) ==
  LET m == req[r]
  IN  /\ At(r, "missed")
      /\ Becomes(r, IF HasVisit(m, m.cur) THEN WithLeft(m, m.todo) ELSE [m EXCEPT !.pc = "raise"])
      /\ UNCHANGED <<hour, world, visits, alarms, parked, poll, failures>>

RaiseMissed(r) ==
  LET m == req[r]
  IN  /\ At(r, "raise")
      /\ Raise(Key(m, m.cur))
      /\ Becomes(r, WithLeft(m, m.todo))
      /\ UNCHANGED <<hour, world, visits, parked, poll, failures>>

-----------------------------------------------------------------------------
(* The poller.                                                                        *)

Polls(m) ==
  /\ poll' = m
  /\ UNCHANGED <<hour, world, visits, req, parked, failures>>

PollDuties ==
  LET on == {a \in Posts : Active(a)}
  IN  /\ poll.pc = "wait"
      /\ on # {}
      /\ Polls([poll EXCEPT !.pc = "fetch", !.posts = on])
      /\ UNCHANGED alarms

\* Variant: an error ends the goroutine.
FetchFails_Exit == poll.pc = "fetch" /\ Polls([Asleep EXCEPT !.pc = "gone"]) /\ UNCHANGED alarms

\* The tracker does not answer within five seconds, or not in JSON.
FetchFails == poll.pc = "fetch" /\ Polls(Asleep) /\ UNCHANGED alarms

\* It answers; vehicles without coordinates are left out.
Fetch ==
  /\ poll.pc = "fetch"
  /\ Polls([poll EXCEPT !.pc = "polygon", !.fleet = parked])
  /\ UNCHANGED alarms

Rest(m, S) ==
  IF S # {} THEN [m EXCEPT !.pc = "cars", !.cars = S]
  ELSE IF m.posts # {} THEN [m EXCEPT !.pc = "polygon", !.cars = {}] ELSE Asleep

ReadPolygon ==
  /\ poll.pc = "polygon"
  /\ \E a \in poll.posts :
       Polls(Rest([poll EXCEPT !.post = a, !.posts = @ \ {a}, !.inside = shape[Post[a].polygon]],
                  {v \in Post[a].cars : poll.fleet[v] # None}))
  /\ UNCHANGED alarms

\* The position is saved, its error dropped, and compared with the polygon.
CheckVehicle ==
  /\ poll.pc = "cars"
  /\ \E v \in poll.cars :
       /\ IF poll.fleet[v] \in poll.inside THEN UNCHANGED alarms
          ELSE Raise(<<Post[poll.post].duty, v, None>>)
       /\ Polls(Rest(poll, poll.cars \ {v}))

-----------------------------------------------------------------------------
Outside ==
  \/ Tick
  \/ \E d \in Duties : OpenDuty(d) \/ StopDuty(d)
  \/ \E p \in Points, row \in PointRow : SetPoint(p, row)
  \/ \E g \in Polygons, S \in SUBSET Places : Redraw(g, S)
  \/ \E v \in Vehicles, x \in Places \cup {None} : Drive(v, x)

Call(r) ==
  \/ \E e \in Employees, x \in Places : SavePosition(r, e, x)
  \/ Expire(r) \/ ListDuties(r) \/ CheckPolygon(r) \/ ListPoints(r) \/ NextPoint(r)
  \/ SaveVisit(r) \/ CheckMissed(r) \/ RaiseMissed(r)

Round == PollDuties \/ ReadPolygon \/ CheckVehicle

Next == Outside \/ (\E r \in Requests : Call(r)) \/ Round \/ Fetch \/ FetchFails

Spec == Init /\ [][Next]_vars

\* The poller is a goroutine with a ticker, and the tracker answers again and again.  Of
\* the tablets and the calls nothing is assumed.
FairSpec == Spec /\ WF_vars(Round) /\ WF_vars(Fetch \/ FetchFails) /\ SF_vars(Fetch)

-----------------------------------------------------------------------------
(* Properties.                                                                        *)

\* A call that is in time reports a point as missed only if it was not visited before the
\* position arrived, however visits, edits and other calls of the employee overlap.
MissedIsUnvisited ==
  \A r \in Requests :
    At(r, "raise") /\ ~ req[r].expired => Key(req[r], req[r].cur) \notin req[r].known

\* Every visit is one of a crew member's, in a duty that was opened.
VisitsOfCrew ==
  \A v \in visits : duty[v[1]] # "unborn" /\ \E a \in Posts : Post[a].duty = v[1] /\ v[2] \in Post[a].crew

Consistent == TypeOK /\ MissedIsUnvisited /\ VisitsOfCrew

InHand(d) ==
  \/ \E r \in Requests : \E a \in req[r].posts \cup ({req[r].post} \ {None}) : Post[a].duty = d
  \/ \E a \in poll.posts \cup ({poll.post} \ {None}) : Post[a].duty = d

\* DutyStop takes effect: once the calls and the round that had listed the duty are over,
\* nothing is raised and no visit recorded for it any more, and nobody takes it up again.
StoppedIsQuiet ==
  [][\A d \in Duties : duty[d] = "stopped" /\ ~ InHand(d) =>
       /\ ~ InHand(d)'
       /\ \A v \in visits' : v[1] = d => v \in visits
       /\ \A k \in Alarm : k[1] = d => alarms'[k] = alarms[k]]_vars

Strayed(a, v) == Active(a) /\ v \in Post[a].cars /\ parked[v] \notin shape[Post[a].polygon] \cup {None}

\* A vehicle that stays outside its polygon is reported again and again, however often the
\* tracker fails to answer in between and whatever the tablets send.
StrayReported ==
  \A a \in Posts, v \in Vehicles :
    LET k == <<Post[a].duty, v, None>>
    IN  <>[]Strayed(a, v) => []<><<alarms'[k] # alarms[k]>>_alarms
=============================================================================
