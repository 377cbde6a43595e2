-------------------------- MODULE PointPatrolProofs --------------------------
(* Theorems about PointPatrol, for every number of calls at once, every set of duties,    *)
(* assignments, polygons, points, employees, vehicles and places, and every window.       *)
EXTENDS PointPatrol, TLAPS

USE PatrolAssumption

------------------------------------------------------------------------------
(* The inductive invariant *)

\* The assignments a call, or the poller, goes on with.
Held(m) == m.posts \cup ({m.post} \ {None})

\* The sender is of the assignment's crew, and its duty was opened: both stay so.
Serves(e, a, duties) == a \in Posts /\ e \in Post[a].crew /\ duties[Post[a].duty] # "unborn"

AtPost == {"points", "point", "visit", "missed", "raise"}

\* What a call may rely on, statements after it read it, with the duties and visits of now.
CallSound(m, duties, recorded) ==
  /\ m.known \subseteq recorded
  /\ \A a \in m.posts : Serves(m.emp, a, duties)
  /\ m.pc \in AtPost => Serves(m.emp, m.post, duties)
  /\ m.pc \in {"visit", "missed", "raise"} => m.cur \in Listed
  /\ m.pc = "raise" /\ ~ m.expired => Key(m, m.cur) \notin m.known

CallsSound == \A r \in Requests : CallSound(req[r], duty, visits)

PollSound == poll.pc = "cars" => poll.post \in Posts

IInv == TypeOK /\ CallsSound /\ PollSound /\ VisitsOfCrew

\* The body of StoppedIsQuiet.
Quiet ==
  \A d \in Duties : duty[d] = "stopped" /\ ~ InHand(d) =>
    /\ ~ InHand(d)'
    /\ \A v \in visits' : v[1] = d => v \in visits
    /\ \A k \in Alarm : k[1] = d => alarms'[k] = alarms[k]

LEMMA InHandIsHeld ==
  ASSUME NEW d \in Duties
  PROVE  InHand(d) <=> \/ \E r \in Requests : \E a \in Held(req[r]) : Post[a].duty = d
                       \/ \E a \in Held(poll) : Post[a].duty = d
BY DEF InHand, Held

LEMMA InHandIsHeldNext ==
  ASSUME NEW d \in Duties
  PROVE  InHand(d)' <=> \/ \E r \in Requests : \E a \in Held(req'[r]) : Post[a].duty = d
                        \/ \E a \in Held(poll') : Post[a].duty = d
BY DEF InHand, Held

------------------------------------------------------------------------------
(* The states of a call *)

LEMMA IdleIsSound ==
  /\ Idle \in Request /\ Held(Idle) = {}
  /\ \A duties, recorded : CallSound(Idle, duties, recorded)
BY DEF Idle, Request, Held, CallSound, AtPost

\* Duties are opened once and visits are never deleted: what a call relies on stays.
LEMMA SoundStays ==
  ASSUME NEW m \in Request, NEW duties, NEW later, NEW recorded, NEW more,
         CallSound(m, duties, recorded), recorded \subseteq more,
         \A d \in Duties : duties[d] # "unborn" => later[d] # "unborn"
  PROVE  CallSound(m, later, more)
<1>1. \A a \in Posts : Post[a].duty \in Duties
  OBVIOUS
<1>2. \A a : Serves(m.emp, a, duties) => Serves(m.emp, a, later)
  BY <1>1 DEF Serves
<1> QED
  BY <1>2 DEF CallSound

LEMMA WithLeftSound ==
  ASSUME NEW m \in Request, NEW S \in SUBSET Listed, NEW duties, NEW recorded,
         CallSound(m, duties, recorded), m.pc \in AtPost
  PROVE  /\ WithLeft(m, S) \in Request
         /\ CallSound(WithLeft(m, S), duties, recorded)
         /\ Held(WithLeft(m, S)) \subseteq Held(m)
<1> DEFINE n == WithLeft(m, S)
<1>1. CASE S # {}
  <2>1. n = [m EXCEPT !.pc = "point", !.todo = S, !.cur = None]
    BY <1>1 DEF WithLeft
  <2>2. n \in Request
    BY <2>1 DEF Request
  <2>3. /\ n.pc = "point" /\ n.known = m.known /\ n.posts = m.posts
        /\ n.emp = m.emp /\ n.post = m.post
    BY <2>1 DEF Request
  <2> QED
    BY <2>2, <2>3 DEF CallSound, Held, AtPost
<1>2. CASE S = {} /\ m.posts # {}
  <2>1. n = [m EXCEPT !.pc = "post", !.post = None, !.todo = {}, !.cur = None]
    BY <1>2 DEF WithLeft
  <2>2. n \in Request
    BY <2>1 DEF Request
  <2>3. /\ n.pc = "post" /\ n.known = m.known /\ n.posts = m.posts
        /\ n.emp = m.emp /\ n.post = None
    BY <2>1 DEF Request
  <2> QED
    BY <2>2, <2>3 DEF CallSound, Held, AtPost
<1>3. CASE S = {} /\ m.posts = {}
  <2>1. n = Idle
    BY <1>3 DEF WithLeft
  <2> QED
    BY <2>1, IdleIsSound
<1> QED
  BY <1>1, <1>2, <1>3

LEMMA LaterSound ==
  ASSUME NEW m \in Request, NEW x \in Listed, NEW duties, NEW recorded,
         CallSound(m, duties, recorded), m.pc \in AtPost
  PROVE  /\ Later(m, x) \in Request
         /\ CallSound(Later(m, x), duties, recorded)
         /\ Held(Later(m, x)) \subseteq Held(m)
<1> DEFINE n == [m EXCEPT !.pc = "missed", !.cur = x, !.todo = @ \ {x}]
<1>1. m.todo \ {x} \in SUBSET Listed
  BY DEF Request
<1>2. CASE PastEnd(m.hour, x[2].window)
  <2>1. Later(m, x) = n
    BY <1>2 DEF Later
  <2>2. n \in Request
    BY <1>1 DEF Request
  <2>3. /\ n.pc = "missed" /\ n.known = m.known /\ n.posts = m.posts
        /\ n.emp = m.emp /\ n.post = m.post /\ n.cur = x
    BY DEF Request
  <2> QED
    BY <2>1, <2>2, <2>3 DEF CallSound, Held, AtPost
<1>3. CASE ~ PastEnd(m.hour, x[2].window)
  BY <1>1, <1>3, WithLeftSound DEF Later
<1> QED
  BY <1>2, <1>3

------------------------------------------------------------------------------
(* Each step keeps the invariant, and the silence of a stopped duty *)

\* A call goes on to n: it takes up no duty but an active one, and what it records and raises
\* is for an assignment it holds.
LEMMA CallGoesOn ==
  ASSUME IInv, NEW r \in Requests, NEW n \in Request, Becomes(r, n),
         UNCHANGED <<hour, world, parked, poll>>, failures' \in 0 .. MaxFailures,
         CallSound(n, duty, visits'),
         \A a \in Held(n) : a \in Held(req[r]) \/ (a \in Posts /\ Active(a)),
         visits \subseteq visits',
         \A v \in visits' \ visits :
           /\ v \in Visit
           /\ \E a \in Held(req[r]) : Serves(v[2], a, duty) /\ Post[a].duty = v[1],
         alarms' \in [Alarm -> 0 .. 1],
         \A k \in Alarm : alarms'[k] # alarms[k] => \E a \in Held(req[r]) : Post[a].duty = k[1]
  PROVE  IInv' /\ Quiet
<1>1. req' = [req EXCEPT ![r] = n] /\ req \in [Requests -> Request]
  BY DEF Becomes, IInv, TypeOK
<1>2. req' \in [Requests -> Request] /\ visits' \in SUBSET Visit
  BY <1>1 DEF IInv, TypeOK
<1>3. TypeOK'
  BY <1>2 DEF IInv, TypeOK, world
<1>4. CallsSound'
  <2> SUFFICES ASSUME NEW q \in Requests
               PROVE  CallSound(req'[q], duty, visits')
    BY DEF CallsSound, world
  <2>1. CASE q = r
    BY <1>1, <2>1
  <2>2. CASE q # r
    <3>1. req'[q] = req[q] /\ req[q] \in Request /\ CallSound(req[q], duty, visits)
      BY <1>1, <2>2 DEF IInv, CallsSound
    <3> QED
      BY <3>1, SoundStays
  <2> QED
    BY <2>1, <2>2
<1>5. VisitsOfCrew'
  BY DEF IInv, VisitsOfCrew, Serves, world
<1>6. PollSound'
  BY DEF IInv, PollSound
<1>7. Quiet
  <2> SUFFICES ASSUME NEW d \in Duties, duty[d] = "stopped", ~ InHand(d)
               PROVE  /\ ~ InHand(d)'
                      /\ \A v \in visits' : v[1] = d => v \in visits
                      /\ \A k \in Alarm : k[1] = d => alarms'[k] = alarms[k]
    BY DEF Quiet
  <2>1. /\ \A q \in Requests : \A a \in Held(req[q]) : Post[a].duty # d
        /\ \A a \in Held(poll) : Post[a].duty # d
    BY InHandIsHeld
  <2>2. \A q \in Requests : q # r => req'[q] = req[q]
    BY <1>1
  <2>3. \A a \in Held(req'[r]) : Post[a].duty # d
    BY <1>1, <2>1 DEF Active
  <2>4. ~ InHand(d)'
    BY <2>1, <2>2, <2>3, InHandIsHeldNext
  <2> QED
    BY <2>1, <2>4
<1> QED
  BY <1>3, <1>4, <1>5, <1>6, <1>7 DEF IInv

\* A step of the poller, likewise.
LEMMA PollGoesOn ==
  ASSUME IInv, NEW m, Polls(m),
         m \in [pc : {"wait", "fetch", "polygon", "cars"}, posts : SUBSET Posts,
                post : Posts \cup {None}, cars : SUBSET Vehicles, inside : SUBSET Places,
                fleet : [Vehicles -> Places \cup {None}]],
         m.pc = "cars" => m.post \in Posts,
         \A a \in Held(m) : a \in Held(poll) \/ (a \in Posts /\ Active(a)),
         visits' = visits, alarms' \in [Alarm -> 0 .. 1],
         \A k \in Alarm : alarms'[k] # alarms[k] => \E a \in Held(poll) : Post[a].duty = k[1]
  PROVE  IInv' /\ Quiet
<1>1. poll' = m /\ UNCHANGED <<hour, world, req, parked, failures>>
  BY DEF Polls
<1>2. TypeOK'
  BY <1>1 DEF IInv, TypeOK, world
<1>3. CallsSound' /\ VisitsOfCrew' /\ PollSound'
  BY <1>1 DEF IInv, CallsSound, VisitsOfCrew, PollSound, world
<1>4. Quiet
  <2> SUFFICES ASSUME NEW d \in Duties, duty[d] = "stopped", ~ InHand(d)
               PROVE  /\ ~ InHand(d)'
                      /\ \A k \in Alarm : k[1] = d => alarms'[k] = alarms[k]
    BY DEF Quiet
  <2>1. /\ \A q \in Requests : \A a \in Held(req[q]) : Post[a].duty # d
        /\ \A a \in Held(poll) : Post[a].duty # d
    BY InHandIsHeld
  <2>2. \A a \in Held(poll') : Post[a].duty # d
    BY <1>1, <2>1 DEF Active
  <2>3. ~ InHand(d)'
    BY <1>1, <2>1, <2>2, InHandIsHeldNext
  <2> QED
    BY <2>1, <2>3
<1> QED
  BY <1>2, <1>3, <1>4 DEF IInv

\* A call goes on without a visit or an alarm.
LEMMA CallGoesOnQuietly ==
  ASSUME IInv, NEW r \in Requests, NEW n \in Request, Becomes(r, n),
         UNCHANGED <<hour, world, visits, alarms, parked, poll>>, failures' \in 0 .. MaxFailures,
         CallSound(n, duty, visits),
         \A a \in Held(n) : a \in Held(req[r]) \/ (a \in Posts /\ Active(a))
  PROVE  IInv' /\ Quiet
<1>1. CallSound(n, duty, visits')
  OBVIOUS
<1>2. alarms' \in [Alarm -> 0 .. 1]
  BY DEF IInv, TypeOK
<1> QED
  BY <1>1, <1>2, CallGoesOn

\* Steps of the surroundings: a stopped duty is never opened again.
LEMMA OutsideSound ==
  ASSUME IInv, UNCHANGED <<visits, alarms, req, poll, failures>>,
         hour' \in Day,
         duty' \in [Duties -> {"unborn", "active", "stopped"}],
         \A d \in Duties : duty[d] # "unborn" => duty'[d] # "unborn",
         shape' \in [Polygons -> SUBSET Places],
         point' \in [Points -> PointRow \cup {NoPoint}],
         parked' \in [Vehicles -> Places \cup {None}],
         edits' \in 0 .. MaxEdits
  PROVE  IInv' /\ Quiet
<1>1. TypeOK'
  BY DEF IInv, TypeOK
<1>2. CallsSound'
  <2> SUFFICES ASSUME NEW r \in Requests
               PROVE  CallSound(req[r], duty', visits)
    BY DEF CallsSound
  <2>1. req[r] \in Request /\ CallSound(req[r], duty, visits)
    BY DEF IInv, TypeOK, CallsSound
  <2> QED
    BY <2>1, SoundStays
<1>3. VisitsOfCrew'
  BY DEF IInv, TypeOK, VisitsOfCrew, Visit
<1>4. PollSound'
  BY DEF IInv, PollSound
<1>5. Quiet
  BY InHandIsHeld, InHandIsHeldNext DEF Quiet
<1> QED
  BY <1>1, <1>2, <1>3, <1>4, <1>5 DEF IInv

LEMMA OutsideStepSound ==
  ASSUME IInv, Outside
  PROVE  IInv' /\ Quiet
<1> USE DEF IInv, TypeOK, world
<1>1. CASE Tick
  <2>1. hour' \in Day /\ UNCHANGED <<world, visits, alarms, req, parked, poll, failures>>
    BY <1>1 DEF Tick, Day
  <2> QED
    BY <2>1, OutsideSound
<1>2. ASSUME NEW d \in Duties, OpenDuty(d) \/ StopDuty(d)
      PROVE  IInv' /\ Quiet
  <2>1. /\ duty' \in [Duties -> {"unborn", "active", "stopped"}]
        /\ \A e \in Duties : duty[e] # "unborn" => duty'[e] # "unborn"
        /\ UNCHANGED <<hour, shape, point, edits, visits, alarms, req, parked, poll, failures>>
    BY <1>2 DEF OpenDuty, StopDuty
  <2> QED
    BY <2>1, OutsideSound
<1>3. ASSUME NEW p \in Points, NEW row \in PointRow, SetPoint(p, row)
      PROVE  IInv' /\ Quiet
  <2>1. point' \in [Points -> PointRow \cup {NoPoint}] /\ edits' \in 0 .. MaxEdits
    BY <1>3 DEF SetPoint
  <2>2. UNCHANGED <<hour, duty, shape, visits, alarms, req, parked, poll, failures>>
    BY <1>3 DEF SetPoint
  <2> QED
    BY <2>1, <2>2, OutsideSound
<1>4. ASSUME NEW g \in Polygons, NEW S \in SUBSET Places, Redraw(g, S)
      PROVE  IInv' /\ Quiet
  <2>1. shape' \in [Polygons -> SUBSET Places] /\ edits' \in 0 .. MaxEdits
    BY <1>4 DEF Redraw
  <2>2. UNCHANGED <<hour, duty, point, visits, alarms, req, parked, poll, failures>>
    BY <1>4 DEF Redraw
  <2> QED
    BY <2>1, <2>2, OutsideSound
<1>5. ASSUME NEW v \in Vehicles, NEW x \in Places \cup {None}, Drive(v, x)
      PROVE  IInv' /\ Quiet
  <2>1. /\ parked' \in [Vehicles -> Places \cup {None}]
        /\ UNCHANGED <<hour, world, visits, alarms, req, poll, failures>>
    BY <1>5 DEF Drive
  <2> QED
    BY <2>1, OutsideSound
<1> QED
  BY <1>1, <1>2, <1>3, <1>4, <1>5 DEF Outside

LEMMA OneAlarm ==
  ASSUME NEW f \in [Alarm -> 0 .. 1], NEW k
  PROVE  [f EXCEPT ![k] = 1 - @] \in [Alarm -> 0 .. 1]
<1>1. ASSUME NEW i \in Alarm
      PROVE  [f EXCEPT ![k] = 1 - @][i] \in 0 .. 1
  BY f[i] \in 0 .. 1
<1> QED
  BY <1>1

LEMMA SavePositionSound ==
  ASSUME IInv, NEW r \in Requests, NEW e \in Employees, NEW x \in Places, SavePosition(r, e, x)
  PROVE  IInv' /\ Quiet
<1> DEFINE n == [Idle EXCEPT !.pc = "list", !.emp = e, !.at = x, !.known = visits]
<1>1. /\ Becomes(r, n) /\ UNCHANGED <<hour, world, visits, alarms, parked, poll, failures>>
      /\ visits \in SUBSET Visit /\ failures' \in 0 .. MaxFailures
  BY DEF SavePosition, IInv, TypeOK
<1>2. n \in Request
  BY <1>1 DEF Idle, Request
<1>3. CallSound(n, duty, visits) /\ Held(n) = {}
  BY <1>1 DEF Idle, CallSound, Held, AtPost
<1> QED
  BY <1>1, <1>2, <1>3, CallGoesOnQuietly

LEMMA ExpireSound ==
  ASSUME IInv, NEW r \in Requests, Expire(r)
  PROVE  IInv' /\ Quiet
<1> DEFINE m == req[r]
           n == [m EXCEPT !.expired = TRUE]
<1>1. /\ Becomes(r, n) /\ UNCHANGED <<hour, world, visits, alarms, parked, poll>>
      /\ m \in Request /\ CallSound(m, duty, visits) /\ failures' \in 0 .. MaxFailures
  BY DEF Expire, IInv, TypeOK, CallsSound
<1>2. n \in Request
  BY <1>1 DEF Request
<1>3. /\ n.known = m.known /\ n.posts = m.posts /\ n.emp = m.emp /\ n.post = m.post
      /\ n.cur = m.cur /\ n.pc = m.pc /\ n.expired
  BY <1>1 DEF Request
<1>4. CallSound(n, duty, visits) /\ Held(n) = Held(m)
  BY <1>1, <1>3 DEF CallSound, Held
<1> QED
  BY <1>1, <1>2, <1>4, CallGoesOnQuietly

LEMMA ListDutiesSound ==
  ASSUME IInv, NEW r \in Requests, ListDuties(r)
  PROVE  IInv' /\ Quiet
<1> DEFINE m == req[r]
           mine == PostsOf(m.emp)
           n == [m EXCEPT !.pc = "post", !.hour = hour, !.posts = mine]
           stays == m.expired \/ mine = {}
<1>1. /\ Becomes(r, IF stays THEN Idle ELSE n)
      /\ UNCHANGED <<hour, world, visits, alarms, parked, poll, failures>>
      /\ m \in Request /\ CallSound(m, duty, visits) /\ failures' \in 0 .. MaxFailures /\ hour \in Day
  BY DEF ListDuties, IInv, TypeOK, CallsSound
<1>2. CASE stays
  BY <1>1, <1>2, IdleIsSound, CallGoesOnQuietly
<1>3. CASE ~ stays
  <2>1. \A a \in mine : Serves(m.emp, a, duty) /\ Active(a)
    BY DEF PostsOf, Active, Serves
  <2>2. mine \in SUBSET Posts
    BY DEF PostsOf
  <2>3. n \in Request
    BY <1>1, <2>2 DEF Request
  <2>4. /\ n.known = m.known /\ n.posts = mine /\ n.emp = m.emp /\ n.post = m.post
        /\ n.pc = "post"
    BY <1>1 DEF Request
  <2>5. CallSound(n, duty, visits)
    BY <1>1, <2>1, <2>4 DEF CallSound, AtPost
  <2>6. \A a \in Held(n) : a \in Held(m) \/ (a \in Posts /\ Active(a))
    BY <2>1, <2>2, <2>4 DEF Held
  <2> QED
    BY <1>1, <1>3, <2>3, <2>5, <2>6, CallGoesOnQuietly
<1> QED
  BY <1>2, <1>3

LEMMA CheckPolygonSound ==
  ASSUME IInv, NEW r \in Requests, CheckPolygon(r)
  PROVE  IInv' /\ Quiet
<1> DEFINE m == req[r]
<1>1. /\ UNCHANGED <<hour, world, visits, parked, poll, failures>>
      /\ m \in Request /\ CallSound(m, duty, visits) /\ failures' \in 0 .. MaxFailures
      /\ m.pc = "post" /\ alarms \in [Alarm -> 0 .. 1]
  BY DEF CheckPolygon, At, IInv, TypeOK, CallsSound
<1>2. PICK a \in m.posts :
           IF m.expired
             THEN /\ Becomes(r, IF m.posts = {a} THEN Idle ELSE [m EXCEPT !.posts = @ \ {a}])
                  /\ UNCHANGED alarms
             ELSE /\ Becomes(r, [m EXCEPT !.pc = "points", !.post = a, !.posts = @ \ {a}])
                  /\ IF m.at \in shape[Post[a].polygon] THEN UNCHANGED alarms
                     ELSE Raise(<<Post[a].duty, m.emp, None>>)
  BY DEF CheckPolygon
<1>3. a \in Held(m) /\ Serves(m.emp, a, duty) /\ a \in Posts
  BY <1>1, <1>2 DEF Held, CallSound, Request
<1>4. CASE m.expired /\ m.posts = {a}
  BY <1>1, <1>2, <1>4, IdleIsSound, CallGoesOnQuietly
<1>5. CASE m.expired /\ m.posts # {a}
  <2> DEFINE n == [m EXCEPT !.posts = @ \ {a}]
  <2>1. n \in Request
    BY <1>1 DEF Request
  <2>2. /\ n.known = m.known /\ n.posts = m.posts \ {a} /\ n.emp = m.emp /\ n.post = m.post
        /\ n.pc = "post"
    BY <1>1 DEF Request
  <2>3. CallSound(n, duty, visits) /\ Held(n) \subseteq Held(m)
    BY <1>1, <2>2 DEF CallSound, Held, AtPost
  <2> QED
    BY <1>1, <1>2, <1>5, <2>1, <2>3, CallGoesOnQuietly
<1>6. CASE ~ m.expired
  <2> DEFINE n == [m EXCEPT !.pc = "points", !.post = a, !.posts = @ \ {a}]
  <2>1. n \in Request
    BY <1>1, <1>3 DEF Request
  <2>2. /\ n.known = m.known /\ n.posts = m.posts \ {a} /\ n.emp = m.emp /\ n.post = a
        /\ n.pc = "points"
    BY <1>1 DEF Request
  <2>3. CallSound(n, duty, visits) /\ Held(n) \subseteq Held(m)
    BY <1>1, <1>3, <2>2 DEF CallSound, Held, AtPost
  <2>4. alarms' = alarms \/ alarms' = [alarms EXCEPT ![<<Post[a].duty, m.emp, None>>] = 1 - @]
    BY <1>2, <1>6 DEF Raise
  <2>5. alarms' \in [Alarm -> 0 .. 1]
    BY <1>1, <2>4, OneAlarm
  <2>6. \A k \in Alarm : alarms'[k] # alarms[k] => Post[a].duty = k[1]
    BY <1>1, <2>4
  <2>7. Becomes(r, n)
    BY <1>2, <1>6
  <2>8. CallSound(n, duty, visits') /\ visits \subseteq visits' /\ visits' \ visits = {}
    BY <1>1, <2>3
  <2> QED
    BY <1>1, <1>3, <2>1, <2>3, <2>5, <2>6, <2>7, <2>8, CallGoesOn
<1> QED
  BY <1>4, <1>5, <1>6

\* A listed point belongs to a polygon, so it has a row.
LEMMA ListPointsSound ==
  ASSUME IInv, NEW r \in Requests, ListPoints(r)
  PROVE  IInv' /\ Quiet
<1> DEFINE m == req[r]
           listed == {p \in Points : point[p].polygon = Post[m.post].polygon}
           S == IF m.expired THEN {} ELSE {<<p, point[p]>> : p \in listed}
<1>1. /\ Becomes(r, WithLeft(m, S))
      /\ UNCHANGED <<hour, world, visits, alarms, parked, poll, failures>>
      /\ m \in Request /\ CallSound(m, duty, visits) /\ failures' \in 0 .. MaxFailures
      /\ m.pc = "points"
  BY DEF ListPoints, At, IInv, TypeOK, CallsSound
<1>2. m.post \in Posts
  BY <1>1 DEF CallSound, AtPost, Serves
<1>3. \A p \in listed : point[p] \in PointRow
  BY <1>2 DEF IInv, TypeOK, NoPoint
<1>4. S \in SUBSET Listed
  BY <1>3 DEF Listed
<1> QED
  BY <1>1, <1>4, WithLeftSound, CallGoesOnQuietly DEF AtPost

LEMMA NextPointSound ==
  ASSUME IInv, NEW r \in Requests, NextPoint(r)
  PROVE  IInv' /\ Quiet
<1> DEFINE m == req[r]
<1>1. /\ UNCHANGED <<hour, world, visits, alarms, parked, poll, failures>>
      /\ m \in Request /\ CallSound(m, duty, visits) /\ failures' \in 0 .. MaxFailures
      /\ m.pc = "point"
  BY DEF NextPoint, At, IInv, TypeOK, CallsSound
<1>2. PICK x \in m.todo :
        \/ Becomes(r, [m EXCEPT !.pc = "visit", !.cur = x, !.todo = @ \ {x}])
        \/ Becomes(r, Later(m, x))
  BY DEF NextPoint
<1>3. x \in Listed
  BY <1>1, <1>2 DEF Request
<1>4. CASE Becomes(r, Later(m, x))
  BY <1>1, <1>3, <1>4, LaterSound, CallGoesOnQuietly DEF AtPost
<1>5. CASE Becomes(r, [m EXCEPT !.pc = "visit", !.cur = x, !.todo = @ \ {x}])
  <2> DEFINE n == [m EXCEPT !.pc = "visit", !.cur = x, !.todo = @ \ {x}]
  <2>1. n \in Request
    BY <1>1, <1>3 DEF Request
  <2>2. /\ n.known = m.known /\ n.posts = m.posts /\ n.emp = m.emp /\ n.post = m.post
        /\ n.pc = "visit" /\ n.cur = x
    BY <1>1 DEF Request
  <2>3. CallSound(n, duty, visits) /\ Held(n) = Held(m)
    BY <1>1, <1>3, <2>2 DEF CallSound, Held, AtPost
  <2> QED
    BY <1>1, <1>5, <2>1, <2>3, CallGoesOnQuietly
<1> QED
  BY <1>2, <1>4, <1>5

LEMMA SaveVisitSound ==
  ASSUME IInv, NEW r \in Requests, SaveVisit(r)
  PROVE  IInv' /\ Quiet
<1> DEFINE m == req[r]
<1>1. /\ UNCHANGED <<hour, world, alarms, parked, poll, failures>> /\ Becomes(r, Later(m, m.cur))
      /\ visits' = IF m.expired THEN visits ELSE visits \cup {Key(m, m.cur)}
      /\ m \in Request /\ CallSound(m, duty, visits) /\ failures' \in 0 .. MaxFailures
      /\ m.pc = "visit" /\ alarms \in [Alarm -> 0 .. 1]
  BY DEF SaveVisit, At, IInv, TypeOK, CallsSound
<1>2. m.cur \in Listed /\ Serves(m.emp, m.post, duty) /\ m.post \in Posts
  BY <1>1 DEF CallSound, AtPost, Serves
<1>3. m.post \in Held(m)
  BY <1>2 DEF Held
<1>4. /\ Key(m, m.cur) \in Visit
      /\ Key(m, m.cur)[1] = Post[m.post].duty /\ Key(m, m.cur)[2] = m.emp
  BY <1>2 DEF Key, Visit, Serves, Listed
<1>5. visits \subseteq visits' /\ \A v \in visits' \ visits : v = Key(m, m.cur)
  BY <1>1
<1>6. /\ Later(m, m.cur) \in Request /\ CallSound(Later(m, m.cur), duty, visits)
      /\ Held(Later(m, m.cur)) \subseteq Held(m)
  BY <1>1, <1>2, LaterSound DEF AtPost
<1>7. CallSound(Later(m, m.cur), duty, visits')
  BY <1>5, <1>6, SoundStays
<1>8. \A v \in visits' \ visits :
        v \in Visit /\ \E a \in Held(m) : Serves(v[2], a, duty) /\ Post[a].duty = v[1]
  BY <1>2, <1>3, <1>4, <1>5
<1> QED
  BY <1>1, <1>5, <1>6, <1>7, <1>8, CallGoesOn

\* The second lookup: a call in time goes on to report only what is not among the visits, and
\* so not among those there were when its position arrived.
LEMMA CheckMissedSound ==
  ASSUME IInv, NEW r \in Requests, CheckMissed(r)
  PROVE  IInv' /\ Quiet
<1> DEFINE m == req[r]
           n == [m EXCEPT !.pc = "raise"]
<1>1. /\ UNCHANGED <<hour, world, visits, alarms, parked, poll, failures>>
      /\ Becomes(r, IF HasVisit(m, m.cur) THEN WithLeft(m, m.todo) ELSE n)
      /\ m \in Request /\ CallSound(m, duty, visits) /\ failures' \in 0 .. MaxFailures
      /\ m.pc = "missed"
  BY DEF CheckMissed, At, IInv, TypeOK, CallsSound
<1>2. m.todo \in SUBSET Listed
  BY <1>1 DEF Request
<1>3. CASE HasVisit(m, m.cur)
  BY <1>1, <1>2, <1>3, WithLeftSound, CallGoesOnQuietly DEF AtPost
<1>4. CASE ~ HasVisit(m, m.cur)
  <2>1. n \in Request
    BY <1>1 DEF Request
  <2>2. /\ n.known = m.known /\ n.posts = m.posts /\ n.emp = m.emp /\ n.post = m.post
        /\ n.pc = "raise" /\ n.cur = m.cur /\ n.expired = m.expired
    BY <1>1 DEF Request
  <2>3. m.expired \/ Key(m, m.cur) \notin m.known
    BY <1>1, <1>4 DEF HasVisit, CallSound
  <2>4. Key(n, n.cur) = Key(m, m.cur)
    BY <2>2 DEF Key
  <2>5. CallSound(n, duty, visits) /\ Held(n) = Held(m)
    BY <1>1, <2>2, <2>3, <2>4 DEF CallSound, Held, AtPost
  <2> QED
    BY <1>1, <1>4, <2>1, <2>5, CallGoesOnQuietly
<1> QED
  BY <1>3, <1>4

LEMMA RaiseMissedSound ==
  ASSUME IInv, NEW r \in Requests, RaiseMissed(r)
  PROVE  IInv' /\ Quiet
<1> DEFINE m == req[r]
           n == WithLeft(m, m.todo)
<1>1. /\ UNCHANGED <<hour, world, visits, parked, poll, failures>> /\ Becomes(r, n)
      /\ alarms' = [alarms EXCEPT ![Key(m, m.cur)] = 1 - @]
      /\ m \in Request /\ CallSound(m, duty, visits) /\ failures' \in 0 .. MaxFailures
      /\ m.pc = "raise" /\ alarms \in [Alarm -> 0 .. 1]
  BY DEF RaiseMissed, Raise, At, IInv, TypeOK, CallsSound
<1>2. m.post \in Held(m)
  BY <1>1 DEF CallSound, AtPost, Serves, Held
<1>3. m.todo \in SUBSET Listed
  BY <1>1 DEF Request
<1>4. n \in Request /\ CallSound(n, duty, visits) /\ Held(n) \subseteq Held(m)
  BY <1>1, <1>3, WithLeftSound DEF AtPost
<1>5. alarms' \in [Alarm -> 0 .. 1]
  BY <1>1, OneAlarm
<1>6. \A k \in Alarm : alarms'[k] # alarms[k] => Post[m.post].duty = k[1]
  BY <1>1 DEF Key
<1>7. CallSound(n, duty, visits') /\ visits \subseteq visits' /\ visits' \ visits = {}
  BY <1>1, <1>4
<1> QED
  BY <1>1, <1>2, <1>4, <1>5, <1>6, <1>7, CallGoesOn

------------------------------------------------------------------------------
(* The poller *)

PollStates == [pc : {"wait", "fetch", "polygon", "cars"}, posts : SUBSET Posts,
               post : Posts \cup {None}, cars : SUBSET Vehicles, inside : SUBSET Places,
               fleet : [Vehicles -> Places \cup {None}]]

LEMMA AsleepIsSound == Asleep \in PollStates /\ Held(Asleep) = {} /\ Asleep.pc = "wait"
  BY DEF Asleep, PollStates, Held

LEMMA RestSound ==
  ASSUME NEW m \in PollStates, NEW S \in SUBSET Vehicles, m.post \in Posts
  PROVE  /\ Rest(m, S) \in PollStates /\ Held(Rest(m, S)) \subseteq Held(m)
         /\ Rest(m, S).pc = "cars" => Rest(m, S).post \in Posts
<1>1. CASE S # {}
  <2>1. Rest(m, S) = [m EXCEPT !.pc = "cars", !.cars = S]
    BY <1>1 DEF Rest
  <2> QED
    BY <2>1 DEF PollStates, Held
<1>2. CASE S = {} /\ m.posts # {}
  <2>1. Rest(m, S) = [m EXCEPT !.pc = "polygon", !.cars = {}]
    BY <1>2 DEF Rest
  <2> QED
    BY <2>1 DEF PollStates, Held
<1>3. CASE S = {} /\ m.posts = {}
  BY <1>3, AsleepIsSound DEF Rest
<1> QED
  BY <1>1, <1>2, <1>3

LEMMA RoundSound ==
  ASSUME IInv, Round \/ Fetch \/ FetchFails
  PROVE  IInv' /\ Quiet
<1>1. /\ poll \in PollStates /\ alarms \in [Alarm -> 0 .. 1] /\ parked \in [Vehicles -> Places \cup {None}]
      /\ shape \in [Polygons -> SUBSET Places]
      /\ poll.pc = "cars" => poll.post \in Posts
  BY DEF IInv, TypeOK, PollStates, PollSound
<1>2. visits' = visits
  BY DEF Round, PollDuties, ReadPolygon, CheckVehicle, Fetch, FetchFails, Polls, world
<1>3. CASE PollDuties
  <2> DEFINE on == {a \in Posts : Active(a)}
             n == [poll EXCEPT !.pc = "fetch", !.posts = on]
  <2>1. Polls(n) /\ UNCHANGED alarms
    BY <1>3 DEF PollDuties
  <2>2. n \in PollStates /\ n.pc = "fetch" /\ n.posts = on /\ n.post = poll.post
    BY <1>1 DEF PollStates
  <2>3. \A a \in Held(n) : a \in Held(poll) \/ (a \in Posts /\ Active(a))
    BY <2>2 DEF Held
  <2> QED
    BY <1>1, <1>2, <2>1, <2>2, <2>3, PollGoesOn DEF PollStates
<1>4. CASE FetchFails
  BY <1>1, <1>2, <1>4, AsleepIsSound, PollGoesOn DEF FetchFails, PollStates
<1>5. CASE Fetch
  <2> DEFINE n == [poll EXCEPT !.pc = "polygon", !.fleet = parked]
  <2>1. Polls(n) /\ UNCHANGED alarms
    BY <1>5 DEF Fetch
  <2>2. n \in PollStates /\ n.pc = "polygon" /\ Held(n) = Held(poll)
    BY <1>1 DEF PollStates, Held
  <2> QED
    BY <1>1, <1>2, <2>1, <2>2, PollGoesOn DEF PollStates
<1>6. CASE ReadPolygon
  <2>1. PICK a \in poll.posts :
          Polls(Rest([poll EXCEPT !.post = a, !.posts = @ \ {a}, !.inside = shape[Post[a].polygon]],
                     {v \in Post[a].cars : poll.fleet[v] # None}))
    BY <1>6 DEF ReadPolygon
  <2> DEFINE m == [poll EXCEPT !.post = a, !.posts = @ \ {a}, !.inside = shape[Post[a].polygon]]
             S == {v \in Post[a].cars : poll.fleet[v] # None}
  <2>2. a \in Posts /\ S \in SUBSET Vehicles /\ shape[Post[a].polygon] \in SUBSET Places
    <3>1. a \in Posts
      BY <1>1, <2>1 DEF PollStates
    <3>2. Post[a].cars \in SUBSET Vehicles /\ Post[a].polygon \in Polygons
      BY <3>1
    <3> QED
      BY <1>1, <3>1, <3>2
  <2>3. m \in PollStates /\ m.post = a /\ m.posts = poll.posts \ {a}
    BY <1>1, <2>2 DEF PollStates
  <2>4. Held(m) \subseteq Held(poll)
    BY <2>3, <2>1 DEF Held
  <2>5. /\ Rest(m, S) \in PollStates /\ Held(Rest(m, S)) \subseteq Held(m)
        /\ Rest(m, S).pc = "cars" => Rest(m, S).post \in Posts
    BY <2>2, <2>3, RestSound
  <2>6. UNCHANGED alarms
    BY <1>6 DEF ReadPolygon
  <2> QED
    BY <1>1, <1>2, <2>1, <2>4, <2>5, <2>6, PollGoesOn DEF PollStates
<1>7. CASE CheckVehicle
  <2>1. poll.post \in Posts /\ poll.cars \in SUBSET Vehicles
    <3>1. poll.pc = "cars"
      BY <1>7 DEF CheckVehicle
    <3>2. poll.cars \in SUBSET Vehicles
      BY <1>1 DEF PollStates
    <3> QED
      BY <1>1, <3>1, <3>2
  <2>2. PICK v \in poll.cars :
          /\ alarms' = alarms \/ alarms' = [alarms EXCEPT ![<<Post[poll.post].duty, v, None>>] = 1 - @]
          /\ Polls(Rest(poll, poll.cars \ {v}))
    BY <1>7 DEF CheckVehicle, Raise
  <2> DEFINE S == poll.cars \ {v}
  <2>3. /\ Rest(poll, S) \in PollStates /\ Held(Rest(poll, S)) \subseteq Held(poll)
        /\ Rest(poll, S).pc = "cars" => Rest(poll, S).post \in Posts
    BY <1>1, <2>1, RestSound
  <2>4. poll.post \in Held(poll)
    BY <2>1 DEF Held
  <2>5. alarms' \in [Alarm -> 0 .. 1]
    <3>1. alarms \in [Alarm -> 0 .. 1]
      BY <1>1
    <3>2. [alarms EXCEPT ![<<Post[poll.post].duty, v, None>>] = 1 - @] \in [Alarm -> 0 .. 1]
      BY <3>1, OneAlarm
    <3> QED
      BY <2>2, <3>1, <3>2
  <2>6. \A k \in Alarm : alarms'[k] # alarms[k] => Post[poll.post].duty = k[1]
    BY <1>1, <2>2
  <2> QED
    BY <1>2, <2>2, <2>3, <2>4, <2>5, <2>6, PollGoesOn DEF PollStates
<1> QED
  BY <1>3, <1>4, <1>5, <1>6, <1>7 DEF Round

------------------------------------------------------------------------------
(* The theorems *)

LEMMA IInvInitially == Init => IInv
<1> SUFFICES ASSUME Init
             PROVE  IInv
  OBVIOUS
<1>1. /\ hour \in Day /\ duty \in [Duties -> {"unborn", "active", "stopped"}]
      /\ shape \in [Polygons -> SUBSET Places] /\ point \in [Points -> PointRow \cup {NoPoint}]
      /\ visits \in SUBSET Visit /\ alarms \in [Alarm -> 0 .. 1]
      /\ edits \in 0 .. MaxEdits /\ failures \in 0 .. MaxFailures
  BY DEF Init, Day
<1>2. req \in [Requests -> Request] /\ CallsSound
  BY IdleIsSound DEF Init, CallsSound
<1>3. poll \in PollStates /\ PollSound /\ parked \in [Vehicles -> Places \cup {None}]
  BY AsleepIsSound DEF Init, PollSound
<1>4. VisitsOfCrew
  BY DEF Init, VisitsOfCrew
<1> QED
  BY <1>1, <1>2, <1>3, <1>4 DEF IInv, TypeOK, PollStates

LEMMA IInvPreserved == IInv /\ [Next]_vars => IInv' /\ (Quiet \/ UNCHANGED vars)
<1> SUFFICES ASSUME IInv, [Next]_vars
             PROVE  IInv' /\ (Quiet \/ UNCHANGED vars)
  OBVIOUS
<1>1. CASE UNCHANGED vars
  BY <1>1 DEF vars, world, IInv, TypeOK, CallsSound, PollSound, VisitsOfCrew
<1>2. ASSUME NEW r \in Requests, Call(r)
      PROVE  IInv' /\ Quiet
  BY <1>2, SavePositionSound, ExpireSound, ListDutiesSound, CheckPolygonSound, ListPointsSound,
     NextPointSound, SaveVisitSound, CheckMissedSound, RaiseMissedSound DEF Call
<1> QED
  BY <1>1, <1>2, OutsideStepSound, RoundSound DEF Next

LEMMA IInvHolds == Spec => []IInv
<1>1. IInv /\ [Next]_vars => IInv'
  BY IInvPreserved
<1> QED
  BY IInvInitially, <1>1, PTL DEF Spec

\* A call in time reports as missed only a point that was not visited when its position arrived,
\* and a visit is one of a crew member's in a duty that was opened, however many calls, edits,
\* stops and deadlines overlap: the second HasPointVisit of SaveLocation sees all that the first
\* statement of the call could have seen.
THEOREM ConsistentHolds == Spec => []Consistent
<1>1. IInv => Consistent
  BY DEF IInv, Consistent, MissedIsUnvisited, CallsSound, CallSound, At
<1> QED
  BY <1>1, IInvHolds, PTL

\* A stopped duty that no call and no round had listed stays silent: GetActiveDuties is the only
\* way to take a duty up, and each alarm and visit is for an assignment taken up.
THEOREM StoppedIsQuietHolds == Spec => StoppedIsQuiet
<1>1. IInv /\ [Next]_vars =>
        [\A d \in Duties : duty[d] = "stopped" /\ ~ InHand(d) =>
           /\ ~ InHand(d)'
           /\ \A v \in visits' : v[1] = d => v \in visits
           /\ \A k \in Alarm : k[1] = d => alarms'[k] = alarms[k]]_vars
  BY IInvPreserved DEF Quiet
<1> QED
  BY <1>1, IInvHolds, PTL DEF Spec, StoppedIsQuiet
==============================================================================
