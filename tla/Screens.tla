------------------------------- MODULE Screens -------------------------------
(* What the live map, its history and filters, the dashboard and the administrators' dashboard  *)
(* show of the rows of Registry, and the territory exits that the last one counts.  The         *)
(* dashboards' counts of duty days per status and the narrowing by query parameters are left    *)
(* out; so are vehicles, zones and the positions that the location service adds to the map.     *)
EXTENDS Access

VARIABLE board   \* an administrators' dashboard that is being read; several do not disturb each other
vars == <<registryVars, loadingVars, board>>

------------------------------------------------------------------------------
(* Who sees which duty days and events *)

Shown == {"SUBMITTED", "COLLECTED", "APPROVED"}
Days(date) == {d \in In("day") : db[d].date = date}

\* The map: a district's roles go before an officer's; without a district, organisations of none.
MapDays(v, date) ==
  {d \in Days(date) :
     /\ db[d].status \in Shown
     /\ \/ "SUPER_ADMIN" \in v.roles
        \/ IF OfDistrict(v) THEN DistrictOf(d) = v.district ELSE db[d].organization = v.organization}

\* The organisations that the filters of the map offer.
OrganizationsOffered(v) ==
  {o \in In("organization") :
     \/ "SUPER_ADMIN" \in v.roles
     \/ IF OfDistrict(v) THEN db[o].district = v.district ELSE o = v.organization}

\* The dashboard: an officer's role goes before a district's; other users get a 403.
DashboardDays(v, date) ==
  {d \in Days(date) :
     \/ "SUPER_ADMIN" \in v.roles
     \/ IF "OFFICER" \in v.roles THEN db[d].organization = v.organization
        ELSE OfDistrict(v) /\ v.district # None /\ DistrictOf(d) = v.district}

\* Variant: the district of the user's organisation.
BoardDays_OfOrganization(v, date) ==
  {d \in Days(date) :
     \/ "SUPER_ADMIN" \in v.roles
     \/ IF "OFFICER" \in v.roles THEN db[d].organization = v.organization
        ELSE v.organization # None /\ DistrictOf(d) = db[v.organization].district}

\* The administrators' dashboard: like it, for whoever has a district.
BoardDays(v, date) ==
  {d \in Days(date) :
     \/ "SUPER_ADMIN" \in v.roles
     \/ IF "OFFICER" \in v.roles THEN db[d].organization = v.organization
        ELSE v.district # None /\ DistrictOf(d) = v.district}

\* The events it counts: like its days, of all dates.
BoardEvents(v) ==
  {e \in In("event") :
     \/ IsSuperAdmin(v)
     \/ IF "OFFICER" \in v.roles THEN db[e].organization = v.organization
        ELSE v.district # None /\ DistrictOf(e) = v.district}

\* What it says of them: the pending ones, some of which have ended by now, the decided ones, and
\* those of the day whatever their status.
EventBlock(v, today, now) ==
  LET events == BoardEvents(v)
      with(statuses) == {e \in events : db[e].status \in statuses}
      planned == with({"DRAFT", "SUBMITTED", "COLLECTED"})
  IN  [planned |-> Cardinality(planned), completed |-> Cardinality(with({"APPROVED"})),
       rejected |-> Cardinality(with({"REJECTED"})),
       delayed |-> Cardinality({e \in planned : db[e].end < now}),
       listed |-> {e \in events : db[e].date = today}]

\* The daily officers on it: of the user's district or, without one, of the organisation's; of
\* every district when there is neither.
BoardOfficers(v, date) ==
  LET district == IF "SUPER_ADMIN" \in v.roles THEN None
                  ELSE IF v.district # None THEN v.district
                  ELSE IF v.organization \in In("organization") THEN db[v.organization].district
                  ELSE None
  IN  {f \in In("officer") : /\ db[f].date = date
                             /\ district \in {None, db[db[f].organization].district}}

\* Whom the map knows by a hash.
UserOf(hash) == {u \in In("user") : db[u].hash = hash}

\* The live map has one entry per hash and section, which shows the user with that hash; who
\* have no hash share an entry of a section, which shows one of them.
LiveEntries(v, date) ==
  LET sections == SectionsOf(MapDays(v, date))
      keys == UNION {{<<db[e].hash, s>> : e \in CrewOf(s)} : s \in sections}
  IN  [key \in keys |->
         IF key[1] = None THEN {e \in CrewOf(key[2]) : db[e].hash = None}
         ELSE UserOf(key[1])]

\* The history: the hashes that the location service reports of the sections, those that someone
\* in a crew of any of the sections has now.
HistoryEntries(v, date, reported) ==
  LET sections == SectionsOf(MapDays(v, date))
      known == {db[e].hash : e \in UNION {CrewOf(s) : s \in sections}} \ {None}
  IN  [key \in {k \in reported : k[2] \in sections /\ k[1] \in known} |-> UserOf(key[1])]

------------------------------------------------------------------------------
(* Territory exits *)

\* An employee's tablet, with an assignment or without; exit_time is the sender's.
RecordExit(u) ==
  /\ spent < MaxRequests /\ spent' = spent + 1
  /\ \E x \in RowsOf["exit"] \ used, a \in In("assignment") \cup {None}, date \in Dates :
       /\ db' = [db EXCEPT ![x] = [employee |-> u, assignment |-> a, date |-> date, returned |-> FALSE]]
       /\ used' = used \cup {x} /\ first' = [first EXCEPT ![x] = db'[x]]
  /\ UNCHANGED <<roles, audit, req, board, loadingVars>>

\* A return, or a second one.
RecordReturn(x) ==
  /\ spent < MaxRequests /\ spent' = spent + 1
  /\ db' = [db EXCEPT ![x].returned = TRUE]
  /\ UNCHANGED <<used, roles, audit, first, req, board, loadingVars>>

------------------------------------------------------------------------------
(* The administrators' dashboard, query by query *)

Closed == [step |-> "closed"]

\* Who is out: read once, before the rest.
OpenBoard(v) ==
  /\ board = Closed /\ spent < MaxRequests /\ spent' = spent + 1
  /\ \E date \in Dates :
       board' =
         [step |-> "crews", viewer |-> v, date |-> date,
          out |-> {db[x].employee : x \in {y \in In("exit") : db[y].date = date /\ ~db[y].returned}}]
  /\ UNCHANGED <<db, used, roles, audit, first, req, loadingVars>>

\* The sections with their crews.
ReadCrews ==
  /\ board.step = "crews"
  /\ board' = [step |-> "count", viewer |-> board.viewer, date |-> board.date, out |-> board.out, rows |-> {},
                todo |-> {<<s, CrewOf(s)>> : s \in SectionsOf(BoardDays(board.viewer, board.date))}]
  /\ UNCHANGED <<registryVars, loadingVars>>

\* Variant: exits with a return are no incidents.
Incidents_Open(crew, date) ==
  {x \in In("exit") : db[x].employee \in crew /\ db[x].date = date /\ ~db[x].returned}
\* The exits of a crew on the day.
Incidents(crew, date) == {x \in In("exit") : db[x].employee \in crew /\ db[x].date = date}

\* One COUNT per section.
CountSection ==
  /\ board.step = "count"
  /\ \E section \in board.todo :
       board' = [board EXCEPT
         !.todo = @ \ {section},
         !.rows = @ \cup {[section |-> section[1], crew |-> section[2],
                              left |-> section[2] \cap board.out,
                              incidents |-> Cardinality(Incidents(section[2], board.date))]}]
  /\ UNCHANGED <<registryVars, loadingVars>>

\* The daily officers, each here or out.
ReadOfficers ==
  /\ board.step = "count" /\ board.todo = {}
  /\ board' = [step |-> "sent", rows |-> board.rows, out |-> board.out,
                officers |-> {<<db[f].officer, db[f].officer \in board.out>> :
                                f \in BoardOfficers(board.viewer, board.date)}]
  /\ UNCHANGED <<registryVars, loadingVars>>

------------------------------------------------------------------------------
Init == RegistryInit /\ LoadingInit /\ board = Closed

Next ==
  \/ RegistryNext /\ UNCHANGED <<loadingVars, board>>
  \/ LoadingNext /\ UNCHANGED board
  \/ \E u \in In("user") : RecordExit(u)
  \/ \E x \in In("exit") : RecordReturn(x)
  \/ \E v \in {Root} \cup {Viewer(u) : u \in In("user")} : OpenBoard(v)
  \/ ReadCrews \/ CountSection \/ ReadOfficers

Spec == Init /\ [][Next]_vars

------------------------------------------------------------------------------
(* Properties *)

\* Every request and dashboard is at a statement of it, and every row refers to rows.
TypeOK ==
  /\ \A c \in Clients : req[c].step \in {"idle", "audit", "write", "roles", "set", "purge", "report"}
  /\ job.step \in {"none", "clear", "parents", "create", "loaded", "sheet", "imported"}
  /\ board.step \in {"closed", "crews", "count", "sent"}
  /\ \A r \in Rows : Exists(r) => r \in used /\ Fits(r, db[r])
  /\ \A x \in audit : /\ x[1] \in {u \in used : Table[u] = "user"}
                      /\ x[2] \in Settable["user"] \cup {"hash", "DELETE"}
                      /\ x[3] \in Rows \cup Pinfls \cup {Hash(p) : p \in Pinfls} \cup {None}

\* A user of one role, with what the role works for, sees the same duty days on the map and on
\* both dashboards, and is offered their organisations.
DaysAgree ==
  \A u \in In("user"), date \in PaperDates :
    LET v == Viewer(u) IN
    Cardinality(v.roles) = 1 /\ (OfDistrict(v) => v.district # None) =>
      /\ MapDays(v, date) = {d \in BoardDays(v, date) : db[d].status \in Shown}
      /\ DashboardDays(v, date) = BoardDays(v, date)
      /\ {db[d].organization : d \in MapDays(v, date)} \subseteq OrganizationsOffered(v)

\* The lists agree with the screens: an officer's days that are under review or approved are on the
\* officer's map; a district's list shows no day of a date that its map does not, and of the events
\* on its dashboard those that its list shows; what a tablet shows of today is in its new duties
\* and on the maps of the organisation's officers.
ListsAgree ==
  \A u \in In("user"), date \in PaperDates :
    LET v == Viewer(u)
        ofDate(rows) == {x \in rows : db[x].date = date}
        seen == {d \in ofDate(ListedDays(v, "new", date)) : db[d].status \in Shown}
        district == ofDate(DistrictPapers(v, "new", date, None))
        officers == {o \in In("user") : roles[o] = {"OFFICER"}}
    IN  /\ v.roles = {"OFFICER"} =>
             /\ seen = IF v.organization = None THEN {} ELSE MapDays(v, date)
             /\ EventBlock(v, date, date).listed = ofDate(ListedEvents(v, "new", date))
        /\ Cardinality(v.roles) = 1 /\ OfDistrict(v) =>
             /\ district \cap In("day") \subseteq MapDays(v, date)
             /\ district \cap In("event") =
                  {e \in EventBlock(v, date, date).listed : db[e].status \in StatusesFor(v)}
        /\ TodayDuties(u, date) \subseteq MyDuties(u, "new", date)
        /\ \A s \in TodayDuties(u, date), o \in officers :
             db[db[s].day].organization = db[o].organization
               => s \in SectionsOf(MapDays(Viewer(o), date))

\* Each event that the administrators' dashboard covers is in one of its counts.
EventsCounted ==
  \A v \in {Root} \cup {Viewer(u) : u \in In("user")}, now \in PaperDates :
    LET block == EventBlock(v, now, now) IN
    /\ block.planned + block.completed + block.rejected = Cardinality(BoardEvents(v))
    /\ block.delayed <= block.planned

\* Who may decide finds what there is to decide, and the screens of a user of one role agree.
ScreensAgree ==
  /\ ReviewersFind /\ WaitingIsDecidable /\ OfficersPrint
  /\ DaysAgree /\ ListsAgree /\ EventsCounted

\* The history shows only who is on the live map, under the same name, and everybody of a crew
\* whose present hash the service reports.
HistoryAgrees ==
  \A date \in Dates, v \in {Root} \cup {Viewer(u) : u \in In("user")} :
    LET live == LiveEntries(v, date)
        reported == {db[u].hash : u \in In("user")} \X In("section")
        history == HistoryEntries(v, date, reported)
    IN  /\ \A key \in DOMAIN history \cap DOMAIN live : history[key] = live[key]
        /\ \A key \in DOMAIN live : key[1] # None => key \in DOMAIN history /\ Cardinality(history[key]) = 1

\* An employee with a PINFL who serves in a section is shown on the map as no one else.
ShownAsThemselves ==
  \A date \in Dates, s \in In("section"), u \in In("user") :
    LET live == LiveEntries(Root, date)
        key == <<Hash(db[u].pinfl), s>> IN
    u \in CrewOf(s) /\ db[u].pinfl # None /\ s \in SectionsOf(MapDays(Root, date))
      => key \in DOMAIN live /\ live[key] = {u}

Consistent ==
  TypeOK /\ AuditComplete /\ ShownAsThemselves /\ HistoryAgrees /\ AttendanceOfOwner /\ LoadRestores /\ ImportComplete

\* The administrators' dashboard agrees with itself though it is read over many queries: whoever it
\* counts as out has an exit among the section's incidents, unless the user was deleted meanwhile,
\* and an officer who also serves in a section is out in both or in neither.
BoardConsistent ==
  board.step \in {"count", "sent"} =>
    /\ \A row \in board.rows :
         \/ Cardinality(row.left) <= row.incidents
         \/ \E u \in row.left : <<u, "DELETE", None>> \in audit
    /\ board.step = "sent" =>
         \A row \in board.rows, officer \in board.officers :
           officer[1] \in row.crew => (officer[2] <=> officer[1] \in row.left)
===============================================================================
