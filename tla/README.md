# Formal models of scc_duty_record

The repository is the server side of a duty register for a police command centre: a Django
application (REST views, two kinds of WebSockets, Celery tasks), a location service in Go with
a database of its own that it calls over gRPC, and the tablets and administrators' screens
those two serve.  This directory holds TLA+ modules of its stateful parts, TLC configurations
that check them on small instances, and TLAPS proofs of their main invariants for every
instance.  `PROJECT.json` lists components, runs, source lines, hazards and theorems by name.

Run a check with `tlc -config <X>.cfg <module>`, a proof with `tlapm <module>.tla`.

## 1. Inventory

How the program executes, which every module takes from its settings and its entry points:

- **Django views** are synchronous, one thread per request, any number of them at once.
  `ATOMIC_REQUESTS` is off and no view opens a transaction or locks a row (the only
  `transaction.atomic` is around the command `load_chilonzor_data`).  A request is therefore a *sequence of database statements*, each
  atomic, with the rows of the earlier ones kept in memory.  A process, a connection or the
  broker may fail between any two; what was written stays.
- **Celery** runs one worker on a Redis queue, with as many processes as the machine has cores
  (`docker-compose.yml` names no number).  A message is acknowledged before its task runs.
- **Channels** keeps groups of WebSockets; `group_send` reaches whoever has joined by then.
- **LocationService** (Go) handles each gRPC call in a goroutine, next to one that polls the
  vehicles; it shares only its Postgres and a map of alarm channels under a mutex.  The Django
  side ignores the failure of every call it makes to it.

| Part | State it keeps | Operations | Interacts with | Hard about it | Must be true |
|---|---|---|---|---|---|
| Duty day | day, sections, assignments and crew, signatures | create, edit, delete, submit, collect, approve, reject | queues alarm listeners | status checked on a row read earlier; many statements per request | a decision rests on the one before; what is submitted is staffed and frozen; one day per date; a listener per approved section |
| Check-in and tracking | check-in rows; duties of the location service | start, end, DutyCreate, DutyStop, live map | Django -> gRPC, lost calls ignored | crews act at once; remote look-then-insert | one active duty per section; check-out is final; tracking follows check-ins |
| Alarm pipeline | channels, streams, task queue, AlarmLog, sockets | raise, fan out, stream, log, push, retry, join, leave | Go -> Celery -> Channels | two buffers, retries, lost workers, workers held for an hour | logged at most once, in order unless raised at once, pushed only if logged, listeners come back, nobody starves |
| Location copies | locations, points; copies in the service | views, admin site, import, sends | Django -> gRPC | read-modify-write, deletions, overlapping imports, lost calls | one row per item; no orphans; the service knows every location that has an organization |
| Patrol points and vehicles | visits, positions, time windows | SaveLocation, DutyInfo, poller | tablets, vehicle tracker -> alarms | two writers, windows, repeats | a visit counted once; a missed point reported |
| Main duties, tasks, absences, files | duty, tasks, assignments, requests, files | CRUD, chain, transfer, review, report | external hand-over | conflict lookup and insertion in steps; PATCH inherited | an employee in one task at a time; one report of an approval; a verdict is final |
| Events | event, assignments, signatures | CRUD, chain, document | none | the chain's races, and edits that save the whole row | no decision without those before it; printed as decided, and never again otherwise |
| 112 incidents | card, notifications | receive, notify | Celery -> tablets | re-sent cards, a task killed between row and push | one row per card; nearby crews told |
| Tablet sessions | token, sockets | sign in, validate, connect | all tablet calls | a token replaced while in use | a replaced tablet is refused |
| Maps, dashboards, documents | none (the live map opens duties) | read, query after query | all | each decides by itself who sees what; one answer from many moments | they agree for a user, and with themselves |
| Reference data, users, vehicles, officers, exits, attendance | rows that refer to each other, roles, audit log | CRUD, commands that load files | all | edits save what was loaded; deletions cascade over what was collected; a load is not atomic | deletions take what belongs to the row; the log accounts for every user; people are found as themselves |
| Proxies, notifications, terms, languages | independent rows, a cache | read, write | - | no protocol | - |

`PROJECT.json` has the files of each part, its status, and the hazards, each at its line.

## 2. Modules

Every module models its handlers *statement by statement*: a request, task or handler has a
program counter and the values it read, and what runs between two statements of it is any step
of anybody else.  Refusals before the first write change nothing and are not steps.  Operators
named `Action_Variant` are plausible wrong versions of an action; nothing uses them, they are
the forms each property is known to reject.

**`ApprovalChain`** is the abstract promise of the chain: documents with a status and the set
of signatures, decided one step at a time, each on the status that must precede it.

**`DutyDay`** models `monitoring/views/duty_day.py`, its service and serializers.
`req[r]` is a request thread: `BeginX` is the load and the check of the status, the other
actions are the statements that follow.  `status`, `signed`, `sections`, `retimed` are columns
and rows of a day (`signed` abstracts `submitted_by`, ... to whether they are set), `home`
and `crew` the assignments and their many-to-many rows, `listeners` counts
`listen_alarm_stream.delay` calls.  The unique key, the cascades, the foreign keys and the
difference between `save()` and `save(update_fields=...)` are modelled by what they do:
`Discard` deletes by key whatever the status has become, `SaveAssignment` inserts a row it no
longer finds, `Save` does not.  `Abort` ends a request anywhere.

**`SectionTracking`** models the start and end views of the tablet, the live map's DutyCreate,
and the handlers DutyCreate (a query, then a transaction) and DutyStop of the Go service.
`duties[s]` is the service's table, `checkin[s][e]` Django's.

**`AlarmPipeline`** models an alarm from its raising to the screens.  An alarm is raised (`Raise`) in
one of the goroutines of calls and of the poller, which then goes through the channels of the section in
`fanOut`: it takes the read lock (`FanOut`), offers the alarm to one channel after the other (`Offer`)
and returns (`FanOutReturns`).  Readers share that lock, so any number of such loops interleave channel
by channel (`fan`, `left`); only the registration of a channel waits for them.  Then follow the
bounded channel of an `AlarmStream` handler (`chan`), the transport (`wire`), the Celery queue and its processes, the
task `listen_alarm_stream` (`pc`, `cur`), the rows of AlarmLog it writes (`log`), the pushes to
groups (`received`) and the joins of `AdminAlarmConsumer`.  Streams end by their deadline, by a
failure, or with their task; a stream that ends empties both buffers.  `earlier[e]` is a history
variable: the alarms that had been offered to everybody when `e` was raised.

**`LocationSync`** models who writes locations and points and what the service has of them.
The content of a row is the number of the save that wrote it, so a stale copy is visible.  A row
also has an organization or none (`org`): a creator may have none, and the deletion of an organization
sets it to NULL.  The handler of the service refuses a location that is sent without (as 0), which is
neither a lost call nor a stored copy.  A call that is given up because the boundary of the row cannot be
read counts as lost.

**`ApprovalHistory`** is what is left of `ApprovalChain` when requests overlap: the decisions
ever taken about a document, each taken after one of those it needs, while its status may fall
back, be rewritten by an edit, or return from deletion.

**`EventApproval`** models `monitoring/views/event.py` with its service and serializers, in the
manner of DutyDay.  An edit saves every column of the event it loaded, status and signatures
included (`SaveEvent`), and one query asks for an employee in all assignments (`CheckStaffed`).
`overlapped` says whether two requests were ever under way at once.

**`MainDuty`** models the older form of duty: `main_duty.py`, `task.py`, `task_assignment.py`,
`duty_file.py`, the report of `pdf_service.py` and the message of `external_service.py`.  `asg`
has the assignments with their seat in a car, `absence` the request about each, `file` the files
with the crews a report names.  The transfer of an employee (`FindClashes`, `DeleteClashes`,
`InsertAssignment`), the review (`SaveReview`, `Replace`), and what an approval does after
it is saved (`ReadReport`, `DeleteReports`, `InsertReport`, `HandOver`) are steps of their own.
`BeginPatch...` are the PATCH methods that the views inherit without the status check of `put`.

**`PointPatrol`** models `SaveLocation` and the vehicle poller of the location service, query by
query, beside edits of points and polygons and the stop of a duty.  A polygon is the set of places
inside it.  A call whose deadline has passed goes on with every query failing (`Expire`); what the
code does with the error differs from query to query.

**`TabletSession`** has the one session of an employee's tablet and the sockets opened with its
tokens; **`IncidentAlerts`** extends it with the receipt of a 112 card, the task
`notify_nearby_employees` and the alerts it pushes into those sockets.

**`Documents`** has the form of a printed document as a function of the rows; **`DutyPaper`**
and **`EventPaper`** extend DutyDay and EventApproval with the rows it is printed from.

**`Registry`** models everything that is administered row by row.  `db[r]` is the row with the
fields that refer to other rows, `Refers` the foreign keys with what their deletion does.  A request
loads, logs (`Audit`), writes, reads roles and sets them; a deletion collects (`Delete`) and deletes
in a transaction (`Purge`).  **`Loading`** extends it with the commands `load_geo_data` (statement
by statement) and `load_chilonzor_data` (one transaction), **`Access`** with the permission classes,
the decisions they allow about duty days and events and the lists of officers, districts and tablets,
**`Screens`** with the territory exits and with what the map, its history and the dashboards show of
those rows.

`MCx` modules give the constants that a configuration cannot write (functions, symmetry) and
the constraints that bound a run.  `xProofs` modules hold the theorems.

## 3. Runs

Bounds are constants named in the configuration.  CHECK_DEADLOCK is off in every run because
each system may really stop: all threads idle and all ids used, or all alarms raised.

| Run | Instance | Question |
|---|---|---|
| `duty_serial` | 1 request thread, 2 day ids, 3 assignment ids, 2 employees, 2 stages | With requests one after another, any cut short: does the day implement `ApprovalChain`, is it printed complete, frozen and listened to once? |
| `duty_race` | 2 threads, 2 day ids, 2 assignment ids, 1 employee, 2 stages | What survives every interleaving of two requests |
| `tracking_race` | 3 threads, 2 sections, 2 employees, 2 duties per section, 1 failure, 1 section on the map | Tracking under overlap and a lost call |
| `alarm_pipeline` | 2 listeners of one section, buffers of 1, 2 alarms, 1 failure, 1 administrator, 2 processes | What is logged and shown, and in which order |
| `alarm_listeners` | 2 sections and 1 incident on 1 process, fairness | Who gets a turn |
| `location_sync` | 2 threads, 2 locations (one also in the admin site), 1 point, 1 item, 1 organization, 4 saves, 1 lost call | What rows and copies keep |
| `location_points` | the same module, 1 thread, nothing lost; expected to be violated | Does a point reach the service? |
| `events` | 2 threads, 1 event, 2 assignments, 2 employees, 2 edits | What decisions and documents keep, serially and under overlap |
| `main_duty` | 2 threads, 1 duty, 2 tasks, 2 assignments, 2 files, 2 employees, 2 windows, 1 car, within `Explored` | Crews, transfers, verdicts, report and chain |
| `point_patrol` | 2 calls of an employee and the poller, 1 duty, polygon, point and vehicle, 2 hours, 1 edit, 1 deadline, fairness | What is recorded, reported, and goes on being reported |
| `incidents` | 1 card delivered twice, 2 tasks, 2 sections sharing an employee, 2 sign-ins, 1 failure, fairness | Who is told of a card |
| `registry` | 2 clients, 2 requests in all, 43 possible rows of 20 tables, 2 loads, within `Explored` | Cascades, audit, attendance, loads, screens |

Why these are enough: a stale read needs one reader and one writer, so two threads show every
pairwise race, and two ids let a row be deleted and made again; SectionTracking needs a third
thread for two tablets and a map.  Two stages and three assignment ids let one section be
staffed and the other not, and an assignment be replaced.  Buffers of one are full after one
alarm; two alarms show order, two loops that interleave, and loss.  One process for two listeners and an incident is the
shortage: every approved day queues a listener per section, and nothing relates their number to
that of the processes.  Two tasks and two windows are a clash; one car shows a crew without a
driver.  Two hours let a window end.  Two sections of one employee make the card's task meet its own
row.  In `registry` a second request meets every statement of the first; a second load meets
what the first one left when it was stopped.  The constraints of `main_duty` and `registry`
(named `Explored`, in the MC modules) keep apart features that have no row in common, such as
files and crews, or a dashboard and a load.  What the theorems of section 5 state holds for every size.

**Fairness** is assumed in three runs, and of the programs' own loops only.

- `alarm_listeners`: the worker takes the next message when it has a free process and goes on
  with a task it has started; the clock runs, so the `timeout=3600` of a stream and the countdown
  of a retry pass.  The deadline is what makes the liveness hold: without it
  (`HourPasses_Never`) the first listener keeps the process for good.
- `point_patrol`: the poller's ticker and its loop go on (`Round`), a request to the tracker is
  answered or times out (`Fetch \/ FetchFails`), and a tracker that is asked again and again
  answers again and again (strong fairness of `Fetch`).  Without the last nothing could be said,
  since a tracker that is down for good reports no vehicle.
- `incidents`: a request that saved a card queues its task, the queue hands every card to some
  process, and a task goes on.  Failures may still cut all of it short, once.

Nothing is assumed of requests that approve or edit, of transports, tablets, administrators or
failures.

`location_points` checks one sentence of the repository and finds it violated (`findings`): points
are said to be upserted like polygons, but an unknown id is only updated, so no point ever arrives.

## 4. What the checks show

- *Serially* the duty day keeps its promise: `ChainSpec` is the refinement into `ApprovalChain`
  with `Docs <- DayIds`, status and signatures mapped to themselves, every statement but the
  inserting, deleting and deciding ones a stutter; and whoever prints a day under review gets a
  name in each section, and the approver's exactly when it is approved (`PaperComplete`).
  This needs one request at a time: two submissions loaded at once put a decided day back.
- *Under overlap* what survives is what a signature, a unique key or a foreign key carries:
  no request of the duty days takes a decision from the row, so whatever one saw signed stays signed
  (`SignatureChain`; deleting the signer's user does take it, see section 6), a day never returns to DRAFT or from deletion (`LeftDraftForGood`), rosters
  have no orphans (`RosterIntegrity`).
- Events and main duties save whole rows, so even signatures are lost under overlap.  Both
  implement `ApprovalHistory` (`HistorySpec`) under every interleaving: no decision without those
  it needs.  `PrintedAsDecided`, `PaperFinal`, `SentIsManned`, `TransferLeavesOne`, `VerdictFinal`
  and the one report of an approval hold until two requests overlap.
- Tracking never doubles a section, because of the partial unique index alone (the look-up in
  DutyCreate is only an optimisation: `InsertDuty_NoUniqueIndex`).
- An alarm is logged at most once per listener, and nobody sees one that is not in the log.  Alarms
  raised one after the other, by one ping or one round of the poller, are logged in that order; alarms
  raised at once are not, and two listeners of a section may log them in opposite orders.  An alarm may
  be lost: with a full channel, between two streams, or when a step fails.
- A point visited before a position arrived is not reported as missed by a call in time, a stopped duty
  falls silent after the calls in hand, and a stray vehicle goes on being reported.
- Whoever is near the place a card has now, in a section the service answers for, is told of it
  although it was sent twice, unless a failure stopped a task; pushes are in the list.
- Locations keep one row per external item and points never outlive theirs, while the service's
  copy may be older than the row.  Unless a call is lost, it has one of every location with an
  organization.
- In the registry the audit log accounts for every value of a user's row and for its deletion, attendance
  is recorded of the owner of the hash, deletions take only what belongs to the row, a load leaves
  exactly what its files say, whoever may collect or approve finds the paper in one of the district's
  two lists, and for a user of one role lists, screens and tablets show the same duty days and events.

What the models show besides, and a reader should know (the first item on alarms contradicts a
docstring, as it says; the others no sentence of the repository that we know of):

- *Duty days*: two overlapping submissions lose an update; the sections and rosters checked may not
  be those submitted.  The first colleague to check out ends the tracking of all.  A look at the
  live map opens duties, of SUBMITTED and COLLECTED days too.  After midnight the crew of a
  section that still runs is not alerted of incidents (`tasks.py:43`).
- *Main duties*: tasks and assignments can be deleted or patched after the duty was sent or
  approved, though an edit is refused (`task.py:76`).  Two overlapping approvals can leave two
  reports.  A report lists the crews of the moment of approval, which may be empty.
- *Alarms*: every administrator gets all alarms, those of the own district twice: `_resolve_groups`
  puts everybody in `alarms_all`, although the docstring of the consumer says that others join the
  group of their district only (`consumers.py:118-120`).  Only
  POINT_MISSED alarms carry a point, so the zones of the map (`map.py:393`) show a missed point as
  visited.  A lookup of a visit that fails counts as no visit, so a late call reports a visited
  point as missed.  Windows across midnight are never open.
- *Locations*: one without an organization, be it created by a user who has none or left behind by
  a deleted organization, is refused by the service (`location_handler.go:26`) with only a line in the log,
  so no duty can be opened on it; an organization given to it in the admin site is not sent.
- *Incidents*: the distance in a notification is that of the first delivery.  DutyInfo of a section
  fails for one unknown polygon, and the task's `max_retries` is never used.  A replaced tablet
  keeps hearing alerts until its socket closes.  The administrators' socket refuses the tokens
  of the ordinary login, because it asks for a tablet session.
- *Registry*: audit rows never have a user (`request_helper.py` returns None in `finally`), are
  written even if the save then fails, and do not cover SET NULL and roles.  A stale PUT inserts a
  deleted row again under its id; two changes of roles mix.  A vehicle that moves to another
  organisation between the collection and the deletion of its old one is deleted.  A PATCH of a daily
  officer skips the check of the organisation.  A second return overwrites the first.
- *Screens*: a user of two roles is a district's user on the map and an officer on the dashboards;
  a district administrator may reject a day that is not collected, but no list shows it to them; the
  district's roles may ask for a document and find only those of their own organisation (`duty_day.py:442`);
  a super administrator finds no paper of an organisation without a district in a district's list;
  a user without a district matches organisations without one on the map.  The organisation filter
  works for super administrators only (`map.py:77`), though the others are offered
  it.  Employees without a PINFL share one row of a section on the live map.
- *Loading*: `load_geo_data` clears the district of every organisation and user, and does not restore
  it.  `load_chilonzor_data` prints its totals before the commit, so an import that a unique key
  refused in its last row reports the users it created although none is kept.

## 5. Proofs

Checked by TLAPS for every value of the constants, from the named assumptions of each module and
nothing else: the bounds are numbers, `None` is none of the ids (nor a verdict), functions such as `Crew`
have the domains their comments give, and the id that the papers use for a line without an
assignment (`Unassigned`) is no assignment's (`PaperAssumption`).

Two shapes of invariant recur, because a request decides on rows it read a while ago.

- *Under any interleaving* (`IInv`): what a program counter may rely on must not be undone by
  anybody.  `MemoryOK(m, ...)` says it of the memory `m` of a request, of the rows it depends on: a
  signature that is only added, a decision in `taken`, an id that was given out.  It takes those rows as
  parameters, so that one lemma (`OneMemoryChanges`) carries every other request over a step.
- *Until two requests overlap* (`SInv`): `IInv`, and unless `overlapped`, that one request at most is under
  way and everything it has read is still so (`Current`), statement by statement.  `overlapped` is
  a history variable of EventApproval and MainDuty; DutyDay has none, and its serial theorems
  assume `OneThread` instead, which is the instance of `duty_serial`.

| Module | Proved | The argument |
|---|---|---|
| `DutyDayProofs` | `SignatureChain`, `ListenersBacked`, `LeftDraftForGood`, `OneDay`, `RosterIntegrity` under overlap; `ListenedOnce`, `ChainSpec`, `ContentFrozen`, `PaperComplete` with one thread | `SignatureChain` is not inductive: a decision is saved on what was loaded earlier, so `InFlight` says that the signature it was loaded with is still there.  Serially `Current` and `Orderly` (approved exactly with the administrator's signature, a day under review staffed) make every deciding statement a step of ApprovalChain, and no section listened to before its dispatch. |
| `EventApprovalProofs` | `Consistent`, `HistorySpec` (the refinement, step by step), `InOrder` of ApprovalHistory; `PrintedAsDecided`, `PaperFinal` | `StatusTaken`: a status other than DRAFT is one of the decisions taken, so even an edit that saves the whole row is a `Rewrite`.  Serially the signatures of an event *are* the decisions (`Orderly`), and the paper is a function of them and of a roster that `Settled` keeps. |
| `MainDutyProofs` | `Consistent`, `HistorySpec`, `InOrder`; `SentIsManned`, `TransferLeavesOne`, `VerdictFinal` | The row a request is about to save carries a status that was decided (`MemoryOK`), wherever the duty went meanwhile; what is reported or handed over was approved.  `Removal` says once what deletions do to references, for cascades of a duty, of a task, of clashes and of reports.  Serially `Clear(row, S)`: the employee's assignments at the time of the new task are among the `S` still to be deleted; none when it is inserted. |
| `SectionTrackingProofs` | `OneActiveDuty`, `DutiesFollowCheckIns`, `CheckOutFinal`, `StartLeavesTracked`, `OnlyTheMapTracksUnstarted` | `InFlight` (`Backed`): a thread that opens or stops a duty rests on a check-in row that is never taken back.  With `Viewed = {}` only a started section is tracked. |
| `AlarmPipelineProofs` | `PushedIsLogged`, `LoggedInOrder`, `AcceptedIsLogged`, `QueueOK` | `Line(l)`, the alarms listener `l` has logged followed by the one in its hand, on the wire and in the channel: each step keeps it, cuts its end, or adds the alarm that a loop offers, so an open stream loses nothing.  `OfferedOnce`: what has still to be offered to `l` is not on its line; `FanOK`: what is in `earlier` has returned, so no loop adds it any more.  `QueueOK` keeps a listener from running twice. |
| `LocationCallsProofs`, LocationSync | `OneRowPerItem`, `NoOrphanPoints`, `KnownToService` | `KnownToService` is not inductive, because a stale PATCH brings a deleted row, or a lost organization, back and sends nothing; `KnownOnceSent` speaks of every location that has an organization or that a request in flight may give one (`Carries`): it is known or being sent with it (`Sends`). |
| `LocationCallsProofs`, IncidentAlerts | `AlertsConsistent` | `TaskSound`: the employees a task has found are on duty (`OnDuty`, which nobody leaves), and the row was written before its push. |
| `PointPatrolProofs` | `Consistent`, `StoppedIsQuiet` | `CallSound`: the visits a call knew of are recorded, the posts it has listed serve its sender, and it is about to raise a missed point only if it looked for the visit.  `StoppedIsQuiet` follows what calls and the poller still hold (`Held`): no step adds a post of a stopped duty. |
| `ScreensProofs` | `Consistent`, `ScreensAgree`, `BoardConsistent`, `GoesOnlyWithOwner`; `CascadesWhole` | `ScreensInv`, see below. |

`TypeOK` is part of each invariant, and so proved as well; where it is a theorem of its own
(`TypeCorrect`), the runs no longer check it.

The registry's invariant `ScreensInv` has five parts.

- `RegistryInv`: the rows.  `RowsFit(db)` says that every row has the columns of its table with values of
  their kind (`WellFormed`) and that what it refers to is there (`Fits`).  It is not inductive alone: a request
  writes back what it loaded, so `RequestOK` says what each keeps between two statements (a row that was
  once inserted, whose every value was inserted or has been logged, before it is written), and `Collected`
  that everything a deletion has collected belongs, row by row, to the one asked for.  `AuditComplete`
  and `AttendanceOfOwner` are carried along.  The lemmas behind it are about the operators: what writing one
  row (`RowWritten`), deleting a set that no CASCADE leaves behind (`RowsLeft`), merging what a request
  gives (`MadeOfGiven`) and a whole import (`ImportedRowsFit`) do to `RowsFit`.
- `JobOK` and `JobAlone`: the command under way, and that nothing but it has moved while it is `Undisturbed`.
- `BoardInv` and `RowsInv`: whoever was out when a dashboard was opened still has the exit, or was deleted
  and logged (`OutKnown`), and each row that was counted agrees with that.
- `ImportInv`: until something overlaps, what the import found is so still (`SheetRead`).
- `LoadInv`: until something overlaps, the tables that a load is through with, and the first `k` features of
  the one at hand, stand in the database as the file has them (`Restored`), because a table is loaded after
  those it refers to (`FinishedStays`).

`ScreensAgree`, `ShownAsThemselves` and `HistoryAgrees` follow from the rows of one state.  `GoesOnlyWithOwner`
is read off each step (`GoesWithOwner`).  The assumptions on the constants are that the rows at the start
are what the database may hold (`InitialAssumption`), that there are finitely many, that roles are roles
(`RolesAssumption`), and that no feature is in a file twice (`FilesAssumption`).  `Cascade` is four
applications of `Taken` instead of a recursion; `CascadesWhole` is the theorem that a fifth adds nothing,
because every CASCADE leads to a table further down (`Depth`).

Model-checked only: the liveness properties (`ListenerComesBack`, `IncidentsNotified`, `WithdrawnStops`,
`StrayReported`, `NearIsTold`), since fairness and ENABLED are out of the prover's reach, and the violation
that `location_points` finds.  The invariants and action properties of all passing runs are theorems.

## 6. Not modelled

- Who makes a request: Access says what a role may do and see, but the requests of the other modules
  are anybody's, so their properties hold whoever calls.  Passwords, logins and the role table itself.
- The deletion of a user for good (`users/view/user.py:216`) outside the registry.  It sets the signature
  columns of days and events to NULL and takes the user's crew rows with it, those of decided days
  included.  What DutyDay, EventApproval, MainDuty and their papers say of signatures, printed names and
  frozen crews holds as long as no signer and nobody of a crew is deleted.
- Edits of duty days, events and main duties in the Django admin site, which bypasses every rule of the
  views, and the deletion of check-in rows there.
- Columns without a rule between rows: names, codes, notes, photos, times of day where no property
  looks at them; layout of documents; counts of duty days per status and the narrowing by query
  parameters of the dashboards; zones and vehicles on the map.
- The proxy of the external references: it fetches, caches and returns, with no state besides the
  expiry of the cache.  Notifications, change logs and terms: single rows without a protocol (the POSTs
  of the first two always fail).  Languages, statistics and other views that only read.
- Parsing of sheets, GeoJSON and names in the commands, and the dry run, which writes nothing.
- GPS arithmetic: a polygon or a point is the set of places within it.
- Rows of other modules in the registry's cascades: a user or an organisation that is deleted takes
  more with it than the rows of DutyReferences, ExitReferences and AttendanceReferences.
- Most lines that no definition maps hold no behaviour: some 3000 lines of
  `directory/views/district.py` are commented-out constants, the rest are generated gRPC code,
  the field lists of serializers, admin pages, settings and layout of PDF pages.

## 7. Plan

Done: all modules of section 2, and the theorems of section 5: every safety property of every passing run.

Open: the liveness properties, for which a proof by hand would start from the measures that their fairness
suggests (messages before the listener, sections a task has not asked); the hazards of
PROJECT.json without a property, each with its reason there; and the parts named in section 6.
