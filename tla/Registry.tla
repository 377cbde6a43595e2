------------------------------- MODULE Registry -------------------------------
(* Rows that are administered one at a time: regions, districts, mahallas, organisations,     *)
(* departments, positions, ranks, vehicles, users, daily duty officers; the rows that refer to *)
(* them; and the audit log of users.  A row is a function from its fields; a reference holds   *)
(* another row.  Columns without a rule between rows (names, codes, notes) are left out, as    *)
(* are created_by and updated_by.  Every request is a sequence of statements, each of its own. *)
EXTENDS Integers, FiniteSets

CONSTANTS
  Rows, Table,          \* every row that may exist; Table[r]: the table it belongs to
  Initial,              \* the rows at the start, with their fields; Gone: a row not inserted yet
  InitialRoles,
  RoleSets,             \* the roles that requests give
  Pinfls, Dates,
  Clients, MaxRequests, \* requests at a time, and in all
  None, Gone

Roles == {"SUPER_ADMIN", "DISTRICT_ADMIN", "COLLECTOR", "OFFICER"}

VARIABLES
  db,      \* the fields of a row, or Gone
  used,    \* rows that have been inserted: ids are not given twice
  roles,   \* User.roles of the user rows
  audit,   \* ModelAudit: <<user, field, new value>>, <<user, "DELETE", None>>
  first,   \* the fields a row was inserted with
  req,     \* what a request is about to do
  spent    \* requests so far

registryVars == <<db, used, roles, audit, first, req, spent>>

------------------------------------------------------------------------------
(* The tables *)

Refers(of, field, to, onDelete) == [of |-> of, field |-> field, to |-> to, onDelete |-> onDelete]

DirectoryReferences ==
  {Refers("district", "region", "region", "SET_NULL"),
   Refers("mahalla", "region", "region", "SET_NULL"),
   Refers("mahalla", "district", "district", "SET_NULL"),
   Refers("organization", "region", "region", "SET_NULL"),
   Refers("organization", "district", "district", "SET_NULL"),
   Refers("stage", "organization", "organization", "CASCADE"),
   Refers("department", "organization", "organization", "SET_NULL"),
   Refers("position", "department", "department", "SET_NULL")}

FleetReferences ==
  {Refers("transport", "organization", "organization", "CASCADE"),
   Refers("transport", "type", "transport_type", "SET_NULL")}

UserReferences ==
  {Refers("user", t, t, "SET_NULL") :
     t \in {"organization", "department", "position", "region", "district", "special_rank"}}

\* A crew row is one of DutySectionAssignment.employees.
DutyReferences ==
  {Refers("day", "organization", "organization", "CASCADE"),
   Refers("section", "day", "day", "CASCADE"),
   Refers("assignment", "section", "section", "CASCADE"),
   Refers("crew", "assignment", "assignment", "CASCADE"),
   Refers("crew", "employee", "user", "CASCADE")}

EventReferences == {Refers("event", "organization", "organization", "CASCADE")}

OfficerReferences ==
  {Refers("officer", "organization", "organization", "CASCADE"),
   Refers("officer", "officer", "user", "CASCADE")}

ExitReferences ==
  {Refers("exit", "employee", "user", "CASCADE"),
   Refers("exit", "assignment", "assignment", "SET_NULL")}

\* A task of a main duty, and who came to it.
AttendanceReferences ==
  {Refers("main_duty", "organization", "organization", "CASCADE"),
   Refers("task", "duty", "main_duty", "CASCADE"),
   Refers("attendance", "task", "task", "CASCADE"),
   Refers("attendance", "employee", "user", "SET_NULL")}

References == DirectoryReferences \cup FleetReferences \cup UserReferences
                \cup DutyReferences \cup EventReferences \cup OfficerReferences \cup ExitReferences \cup AttendanceReferences

Tables == {x.of : x \in References} \cup {x.to : x \in References}
ReferencesOf == [t \in Tables |-> {x \in References : x.of = t}]
RowsOf == [t \in Tables |-> {r \in Rows : Table[r] = t}]

\* What a request may set, and what a POST must.
Settable == [t \in Tables |-> {x.field : x \in ReferencesOf[t]}
               \cup (CASE t = "user" -> {"pinfl"} [] t = "officer" -> {"date"} [] OTHER -> {})]
Required == [t \in Tables |-> {f \in Settable[t] :
               f = "date" \/ \E x \in ReferencesOf[t] : x.field = f /\ x.onDelete = "CASCADE"}]

Exists(r) == db[r] # Gone
In(t) == {r \in RowsOf[t] : Exists(r)}
\* A row that has not been there yet.
New(t) == RowsOf[t] \ used

\* Every reference of a row to another exists, and its unique constraints hold: users/models.py:81,
\* and unique_together of organisation and date.
FitsIn(rows, r, content) ==
  /\ \A x \in ReferencesOf[Table[r]] :
       LET o == content[x.field] IN o # None => o \in RowsOf[x.to] /\ rows[o] # Gone
  /\ \A o \in {y \in RowsOf[Table[r]] \ {r} : rows[y] # Gone} :
       /\ Table[r] = "user" => content.pinfl = None \/ rows[o].pinfl # content.pinfl
       /\ Table[r] = "officer" =>
            <<rows[o].organization, rows[o].date>> # <<content.organization, content.date>>

Fits(r, content) == FitsIn(db, r, content)

\* DailyDutyOfficerSerializer.validate: the officer belongs to the organisation, which a PATCH of
\* one of the two does not look at.
Accepts(t, given) ==
  (t = "officer" /\ {"organization", "officer"} \subseteq DOMAIN given)
    => db[given.officer].organization = given.organization

------------------------------------------------------------------------------
(* What the database holds of a row: its columns, and what the definitions of the columns demand *)

Hash(pinfl) == IF pinfl = None THEN None ELSE <<"sha256", pinfl>>
Hashes == {<<"sha256", p>> : p \in Pinfls}
Statuses == {"DRAFT", "SUBMITTED", "COLLECTED", "APPROVED", "REJECTED"}

Columns == [t \in Tables |-> {x.field : x \in ReferencesOf[t]} \cup
              CASE t = "user" -> {"pinfl", "hash"} [] t = "officer" -> {"date"} [] t = "day" -> {"date", "status"}
                [] t = "event" -> {"date", "end", "status"} [] t = "exit" -> {"date", "returned"}
                [] t = "attendance" -> {"hash"} [] OTHER -> {}]
Values == Rows \cup Pinfls \cup Hashes \cup Statuses \cup Int \cup BOOLEAN \cup {None}

WellFormed(t, content) ==
  /\ DOMAIN content = Columns[t] /\ content = [f \in Columns[t] |-> content[f]]
  /\ \A x \in ReferencesOf[t] :
       \/ content[x.field] \in RowsOf[x.to]
       \/ content[x.field] = None /\ x.onDelete = "SET_NULL"
  /\ t = "user" => content.pinfl \in Pinfls \cup {None} /\ content.hash = Hash(content.pinfl)
  /\ t \in {"day", "event", "officer", "exit"} => content.date \in Int
  /\ t \in {"day", "event"} => content.status \in Statuses
  /\ t = "event" => content.end \in Int
  /\ t = "exit" => content.returned \in BOOLEAN
  /\ t = "attendance" => content.hash \in Hashes

\* The rows at the start are what the database may hold; an attendance has the hash of its user.
ASSUME RowsAssumption ==
  /\ IsFiniteSet(Rows) /\ Table \in [Rows -> Tables]
  /\ None \notin Rows \cup Pinfls /\ None \notin Hashes
  /\ \A t \in Tables : Gone \notin [Columns[t] -> Values]
  /\ Dates \subseteq Int /\ MaxRequests \in Nat

ASSUME InitialAssumption ==
  /\ DOMAIN Initial = Rows /\ Initial = [r \in Rows |-> Initial[r]]
  /\ \A r \in {x \in Rows : Initial[x] # Gone} :
       /\ WellFormed(Table[r], Initial[r]) /\ FitsIn(Initial, r, Initial[r])
       /\ Table[r] = "attendance" /\ Initial[r].employee # None
            => Initial[r].hash = Initial[Initial[r].employee].hash

ASSUME RolesAssumption ==
  /\ RoleSets \subseteq SUBSET Roles
  /\ InitialRoles \in [RowsOf["user"] -> SUBSET Roles]

------------------------------------------------------------------------------
(* Saving a row *)

\* Variant: a hash that is there is kept.
WithHash_Kept(t, content) ==
  IF t = "user" /\ content.hash = None THEN [content EXCEPT !.hash = Hash(content.pinfl)] ELSE content

\* User.save
WithHash(t, content) ==
  IF t = "user" THEN [content EXCEPT !.hash = Hash(content.pinfl)] ELSE content

\* What a request gives, and the rest as it is.
Over(given, content) ==
  [f \in DOMAIN given \cup DOMAIN content |-> IF f \in DOMAIN given THEN given[f] ELSE content[f]]

Idle == [step |-> "idle"]
Saving(step, r, new, rs) == [step |-> step, row |-> r, new |-> new, roles |-> rs]
Done(c) == req' = [req EXCEPT ![c] = Idle]

Starts(c) == req[c] = Idle /\ spent < MaxRequests /\ spent' = spent + 1

Choices(t, f) ==
  CASE f = "pinfl" -> Pinfls \cup {None}
    [] f = "date" -> Dates
    [] OTHER -> UNION {In(x.to) \cup (IF x.onDelete = "CASCADE" THEN {} ELSE {None}) :
                         x \in {y \in ReferencesOf[t] : y.field = f}}

\* Valid values of the fields that a request gives.
Given(t, fields) ==
  {g \in [fields -> UNION {Choices(t, f) : f \in fields}] : \A f \in fields : g[f] \in Choices(t, f)}

Blank(t) == [f \in Settable[t] \cup (IF t = "user" THEN {"hash"} ELSE {}) |-> None]

\* A POST gives what is required and one more field, or the roles of a user; None: no roles.
Offers(t) ==
  (UNION {Given(t, Required[t] \cup more) \X {None} : more \in {{f} : f \in Settable[t]}})
    \cup (IF t = "user" THEN {[f \in {} |-> None]} \X (RoleSets \ {{}}) ELSE Given(t, Required[t]) \X {None})

\* A POST inserts the row; for a user UserSerializer.create saves it again and then sets the roles.
Post(c, t) ==
  /\ Starts(c)
  /\ New(t) # {}
  /\ \E offer \in Offers(t) :
       LET r == CHOOSE x \in New(t) : TRUE
           new == WithHash(t, Over(offer[1], Blank(t))) IN
       /\ Fits(r, new) /\ Accepts(t, offer[1])
       /\ db' = [db EXCEPT ![r] = new]
       /\ used' = used \cup {r}
       /\ first' = [first EXCEPT ![r] = new]
       /\ req' = [req EXCEPT ![c] = IF t = "user" THEN Saving("audit", r, new, offer[2]) ELSE Idle]
  /\ UNCHANGED <<roles, audit>>

\* A PATCH gives one field, a PUT what is required; either may give the roles of a user.
Changes(t) ==
  (UNION {Given(t, {f}) \X {None} : f \in Settable[t]}) \cup Given(t, Required[t]) \X {None}
    \cup (IF t = "user" THEN {[f \in {} |-> None]} \X RoleSets ELSE {})

\* A PUT or PATCH loads the row and changes what it gives in memory.
Edit(c, t) ==
  /\ Starts(c)
  /\ \E r \in In(t), offer \in Changes(t) :
       LET new == WithHash(t, Over(offer[1], db[r])) IN
       /\ Fits(r, new) /\ Accepts(t, offer[1])
       /\ req' = [req EXCEPT ![c] = Saving(IF t = "user" THEN "audit" ELSE "write", r, new, offer[2])]
  /\ UNCHANGED <<db, used, roles, audit, first>>

\* pre_save of a user: the row is read again, and what will change is logged, before the save and
\* whether or not it succeeds; a row that is gone fails the request.
Audit(c) ==
  /\ req[c].step = "audit"
  /\ LET r == req[c].row  new == req[c].new IN
     IF Exists(r)
     THEN /\ audit' = audit \cup {<<r, f, new[f]>> : f \in {g \in DOMAIN new : new[g] # db[r][g]}}
          /\ req' = [req EXCEPT ![c].step = "write"]
     ELSE Done(c) /\ UNCHANGED audit
  /\ UNCHANGED <<db, used, roles, first, spent>>

\* save() writes every field: an UPDATE, or the INSERT of a row that is gone by now, under its id.
Write(c) ==
  /\ req[c].step = "write"
  /\ LET r == req[c].row IN
     IF Fits(r, req[c].new)
     THEN /\ db' = [db EXCEPT ![r] = req[c].new]
          /\ IF req[c].roles = None THEN Done(c) ELSE req' = [req EXCEPT ![c].step = "roles"]
     ELSE Done(c) /\ UNCHANGED db
  /\ UNCHANGED <<used, roles, audit, first, spent>>

\* roles.set reads the roles ...
ReadRoles(c) ==
  /\ req[c].step = "roles"
  /\ req' = [req EXCEPT ![c] = [step |-> "set", row |-> req[c].row, roles |-> req[c].roles,
                                old |-> roles[req[c].row]]]
  /\ UNCHANGED <<db, used, roles, audit, first, spent>>

\* ... and removes and adds what differs from what it read.
SetRoles(c) ==
  /\ req[c].step = "set"
  /\ LET r == req[c].row IN
     roles' = IF Exists(r)
              THEN [roles EXCEPT ![r] = (@ \ (req[c].old \ req[c].roles)) \cup (req[c].roles \ req[c].old)]
              ELSE roles
  /\ Done(c)
  /\ UNCHANGED <<db, used, audit, first, spent>>

\* The server process stops, or the database refuses, between two statements.
Dies(c) ==
  /\ req[c] # Idle
  /\ Done(c)
  /\ UNCHANGED <<db, used, roles, audit, first, spent>>

------------------------------------------------------------------------------
(* Deleting a row: Django collects what goes with it, then deletes in one transaction *)

RefersTo(r, gone, onDelete) ==
  {x \in ReferencesOf[Table[r]] : x.onDelete = onDelete /\ Exists(r) /\ db[r][x.field] \in gone}

\* Variant: whatever refers to them.
Taken_Any(gone) == gone \cup {x \in Rows : RefersTo(x, gone, "CASCADE") \cup RefersTo(x, gone, "SET_NULL") # {}}
\* The rows and those that a CASCADE takes with them.
Taken(gone) == gone \cup {x \in Rows : RefersTo(x, gone, "CASCADE") # {}}

\* The row, what goes with it, with that, and so on: at the most the crews of the assignments of
\* the sections of the days of an organisation.
Cascade(r) == Taken(Taken(Taken(Taken({r}))))

\* The other rows without the ones gone: SET_NULL on whatever refers to them now.
Without(gone) ==
  [x \in Rows |->
     IF x \in gone \/ ~Exists(x) THEN Gone
     ELSE Over([f \in {y.field : y \in RefersTo(x, gone, "SET_NULL")} |-> None], db[x])]

\* Collector.collect loads the rows; seen: as they were then.
Delete(c, t) ==
  /\ Starts(c)
  /\ \E r \in In(t) :
       req' = [req EXCEPT ![c] = [step |-> "purge", row |-> r, seen |-> [x \in Cascade(r) |-> db[x]]]]
  /\ UNCHANGED <<db, used, roles, audit, first>>

\* Collector.delete: audit rows of the users among them, the updates and the deletion.  A row that
\* refers to them since, and would go with them, undoes it all.
Purge(c) ==
  /\ req[c].step = "purge"
  /\ LET gone == DOMAIN req[c].seen IN
     IF \E x \in Rows \ gone : RefersTo(x, gone, "CASCADE") # {}
     THEN UNCHANGED <<db, roles, audit>>
     ELSE /\ db' = Without(gone)
          /\ roles' = [x \in DOMAIN roles |-> IF x \in gone THEN {} ELSE roles[x]]
          /\ audit' = audit \cup {<<x, "DELETE", None>> : x \in {y \in gone : Table[y] = "user"}}
  /\ Done(c)
  /\ UNCHANGED <<used, first, spent>>

------------------------------------------------------------------------------
(* Attendance: another system reports who came to a task or left it, by the hash of the PINFL *)

\* Hash and task are looked up ...
Report(c) ==
  /\ Starts(c)
  /\ \E u \in In("user"), k \in In("task") :
       /\ db[u].hash # None
       /\ req' = [req EXCEPT ![c] = [step |-> "report", row |-> k, hash |-> db[u].hash]]
  /\ UNCHANGED <<db, used, roles, audit, first>>

\* Variant: the employee as found by the lookup.
RecordAttendance_Any(c) ==
  /\ req[c].step = "report"
  /\ LET m == req[c]
         owners == In("user")
     IN  IF Exists(m.row) /\ owners # {} /\ New("attendance") # {}
         THEN LET x == CHOOSE y \in New("attendance") : TRUE IN
              \E u \in owners :
                /\ db' = [db EXCEPT ![x] = [task |-> m.row, employee |-> u, hash |-> m.hash]]
                /\ used' = used \cup {x} /\ first' = [first EXCEPT ![x] = db'[x]]
         ELSE UNCHANGED <<db, used, first>>
  /\ Done(c)
  /\ UNCHANGED <<roles, audit, spent>>

\* ... and once more, to find whose it is, before the row is inserted.
RecordAttendance(c) ==
  /\ req[c].step = "report"
  /\ LET m == req[c]
         owners == {u \in In("user") : db[u].hash = m.hash}
     IN  IF Exists(m.row) /\ owners # {} /\ New("attendance") # {}
         THEN LET x == CHOOSE y \in New("attendance") : TRUE IN
              \E u \in owners :
                /\ db' = [db EXCEPT ![x] = [task |-> m.row, employee |-> u, hash |-> m.hash]]
                /\ used' = used \cup {x} /\ first' = [first EXCEPT ![x] = db'[x]]
         ELSE UNCHANGED <<db, used, first>>
  /\ Done(c)
  /\ UNCHANGED <<roles, audit, spent>>

------------------------------------------------------------------------------
(* The views *)

Requests(c, t) == Post(c, t) \/ Edit(c, t) \/ Delete(c, t)

Regions(c) == Requests(c, "region")
Districts(c) == Requests(c, "district")
Mahallas(c) == Requests(c, "mahalla")
Organizations(c) == Requests(c, "organization")
Departments(c) == Requests(c, "department")
Positions(c) == Requests(c, "position")
SpecialRanks(c) == Requests(c, "special_rank")
TransportTypes(c) == Requests(c, "transport_type")
Transports(c) == Requests(c, "transport")
Users(c) == Requests(c, "user")
DailyOfficers(c) == Requests(c, "officer")

RegistryInit ==
  /\ db = Initial
  /\ used = {r \in Rows : Initial[r] # Gone}
  /\ roles = InitialRoles
  /\ audit = {}
  /\ first = Initial
  /\ req = [c \in Clients |-> Idle]
  /\ spent = 0

RegistryNext ==
  \E c \in Clients :
    \/ Regions(c) \/ Districts(c) \/ Mahallas(c) \/ Organizations(c) \/ Departments(c)
    \/ Positions(c) \/ SpecialRanks(c) \/ TransportTypes(c) \/ Transports(c) \/ Users(c)
    \/ DailyOfficers(c)
    \/ Report(c) \/ RecordAttendance(c)
    \/ Audit(c) \/ Write(c) \/ ReadRoles(c) \/ SetRoles(c) \/ Purge(c) \/ Dies(c)

------------------------------------------------------------------------------
(* Properties *)

\* The audit log accounts for a user's row, in spite of overlapping edits that write back what
\* they loaded: every value in it was inserted or logged, and a row that is gone was logged.
AuditComplete ==
  \A u \in {r \in used : Table[r] = "user"} :
    /\ Exists(u) => \A f \in DOMAIN db[u] :
                      db[u][f] \in {None, first[u][f]} \/ <<u, f, db[u][f]>> \in audit
    /\ Exists(u) \/ <<u, "DELETE", None>> \in audit

\* Attendance is recorded of the user whose hash was received: it is the user's, or was before the
\* PINFL was corrected.
AttendanceOfOwner ==
  \A x \in In("attendance") :
    LET u == db[x].employee IN
    \/ u = None \/ db[x].hash \in {first[u].hash, db[u].hash}
    \/ <<u, "hash", db[x].hash>> \in audit

\* What a row of the table belongs to: it may be deleted with that, and with nothing else.
Owners(t) ==
  CASE t \in {"transport", "stage", "day", "event", "main_duty"} -> {"organization"}
    [] t = "section" -> {"day"} [] t = "assignment" -> {"section"}
    [] t = "crew" -> {"assignment", "user"} [] t = "officer" -> {"organization", "user"}
    [] t = "exit" -> {"user"} [] t = "task" -> {"main_duty"} [] t = "attendance" -> {"task"}
    [] OTHER -> {}
===============================================================================
