---------------------------- MODULE ScreensProofs ----------------------------
(* Theorems about Screens, with Registry, Loading and Access, for every set of rows, requests, *)
(* files and sheets, and any number of requests.                                               *)
EXTENDS Screens, FiniteSetTheorems, TLAPS

------------------------------------------------------------------------------
(* The tables *)

\* The kinds of a reference: what deletion does, and that a column holds one.
LEMMA ReferenceKinds ==
  /\ \A x \in References : x = Refers(x.of, x.field, x.to, x.onDelete)
  /\ \A x \in References : x.onDelete \in {"CASCADE", "SET_NULL"}
  /\ \A x \in References : x.to \in LoadedTables => x.onDelete = "SET_NULL"
BY DEF References, DirectoryReferences, FleetReferences, UserReferences, DutyReferences, EventReferences,
       OfficerReferences, ExitReferences, AttendanceReferences, Refers, LoadedTables

LEMMA OneReferencePerField ==
  \A x, y \in References : x.of = y.of /\ x.field = y.field => x = y
BY DEF References, DirectoryReferences, FleetReferences, UserReferences, DutyReferences, EventReferences,
       OfficerReferences, ExitReferences, AttendanceReferences, Refers

LEMMA TablesAre ==
  Tables = {"region", "district", "mahalla", "organization", "stage", "department", "position", "special_rank",
            "transport_type", "transport", "user", "officer", "day", "section", "assignment", "crew", "event",
            "exit", "main_duty", "task", "attendance"}
<1>1. ASSUME NEW t \in Tables
      PROVE t \in {"region", "district", "mahalla", "organization", "stage", "department", "position", "special_rank",
            "transport_type", "transport", "user", "officer", "day", "section", "assignment", "crew", "event",
            "exit", "main_duty", "task", "attendance"}
  BY DEF Tables, References, DirectoryReferences, FleetReferences, UserReferences, DutyReferences, EventReferences,
       OfficerReferences, ExitReferences, AttendanceReferences, Refers
<1>2. /\ Refers("district", "region", "region", "SET_NULL") \in References
      /\ Refers("mahalla", "district", "district", "SET_NULL") \in References
      /\ Refers("stage", "organization", "organization", "CASCADE") \in References
      /\ Refers("position", "department", "department", "SET_NULL") \in References
      /\ Refers("transport", "type", "transport_type", "SET_NULL") \in References
  BY DEF References, DirectoryReferences, FleetReferences, Refers
<1>3. Refers("user", "special_rank", "special_rank", "SET_NULL") \in References
  BY DEF References, UserReferences, Refers
<1>4. /\ Refers("crew", "assignment", "assignment", "CASCADE") \in References
      /\ Refers("assignment", "section", "section", "CASCADE") \in References
      /\ Refers("section", "day", "day", "CASCADE") \in References
      /\ Refers("event", "organization", "organization", "CASCADE") \in References
      /\ Refers("officer", "officer", "user", "CASCADE") \in References
      /\ Refers("exit", "employee", "user", "CASCADE") \in References
  BY DEF References, DutyReferences, EventReferences, OfficerReferences, ExitReferences, Refers
<1>5. /\ Refers("task", "duty", "main_duty", "CASCADE") \in References
      /\ Refers("attendance", "task", "task", "CASCADE") \in References
  BY DEF References, AttendanceReferences, Refers
<1>6. \A of, field, to, onDelete : Refers(of, field, to, onDelete) \in References => of \in Tables /\ to \in Tables
  BY DEF Tables, Refers
<1> QED
  BY <1>1, <1>2, <1>3, <1>4, <1>5, <1>6

LEMMA ReferencesOfTable ==
  ASSUME NEW t \in Tables, NEW x
  PROVE  x \in ReferencesOf[t] <=> x \in References /\ x.of = t
BY DEF ReferencesOf

\* The references of the tables that a load, an import, an attendance or an exit writes.
LEMMA ReferencesWritten ==
  /\ ReferencesOf["region"] = {} /\ ReferencesOf["special_rank"] = {}
  /\ ReferencesOf["district"] = {Refers("district", "region", "region", "SET_NULL")}
  /\ ReferencesOf["mahalla"] = {Refers("mahalla", "region", "region", "SET_NULL"),
                                Refers("mahalla", "district", "district", "SET_NULL")}
  /\ ReferencesOf["department"] = {Refers("department", "organization", "organization", "SET_NULL")}
  /\ ReferencesOf["position"] = {Refers("position", "department", "department", "SET_NULL")}
  /\ ReferencesOf["user"] = UserReferences
  /\ ReferencesOf["attendance"] = {Refers("attendance", "task", "task", "CASCADE"),
                                   Refers("attendance", "employee", "user", "SET_NULL")}
  /\ ReferencesOf["exit"] = ExitReferences
<1>1. ASSUME NEW x \in References
      PROVE  /\ x.of \notin {"region", "special_rank"}
             /\ x.of = "district" <=> x = Refers("district", "region", "region", "SET_NULL")
             /\ x.of = "mahalla" <=> x \in {Refers("mahalla", "region", "region", "SET_NULL"),
                                             Refers("mahalla", "district", "district", "SET_NULL")}
             /\ x.of = "department" <=> x = Refers("department", "organization", "organization", "SET_NULL")
             /\ x.of = "position" <=> x = Refers("position", "department", "department", "SET_NULL")
             /\ x.of = "user" <=> x \in UserReferences
             /\ x.of = "attendance" <=> x \in {Refers("attendance", "task", "task", "CASCADE"),
                                                Refers("attendance", "employee", "user", "SET_NULL")}
             /\ x.of = "exit" <=> x \in ExitReferences
  BY DEF References, DirectoryReferences, FleetReferences, UserReferences, DutyReferences, EventReferences,
       OfficerReferences, ExitReferences, AttendanceReferences, Refers
<1>2. UserReferences \cup ExitReferences \cup DirectoryReferences \cup AttendanceReferences \subseteq References
  BY DEF References
<1>3. /\ Refers("district", "region", "region", "SET_NULL") \in References
      /\ Refers("mahalla", "region", "region", "SET_NULL") \in References
      /\ Refers("mahalla", "district", "district", "SET_NULL") \in References
      /\ Refers("department", "organization", "organization", "SET_NULL") \in References
      /\ Refers("position", "department", "department", "SET_NULL") \in References
      /\ Refers("attendance", "task", "task", "CASCADE") \in References
      /\ Refers("attendance", "employee", "user", "SET_NULL") \in References
  BY <1>2 DEF DirectoryReferences, AttendanceReferences
<1>4. \A t \in Tables : ReferencesOf[t] = {x \in References : x.of = t}
  BY DEF ReferencesOf
<1>5. ReferencesOf["region"] = {} /\ ReferencesOf["special_rank"] = {}
  BY <1>1, <1>4, TablesAre
<1>6. ReferencesOf["district"] = {Refers("district", "region", "region", "SET_NULL")}
  BY <1>1, <1>3, <1>4, TablesAre
<1>7. ReferencesOf["mahalla"] = {Refers("mahalla", "region", "region", "SET_NULL"),
                                Refers("mahalla", "district", "district", "SET_NULL")}
  BY <1>1, <1>3, <1>4, TablesAre
<1>8. /\ ReferencesOf["department"] = {Refers("department", "organization", "organization", "SET_NULL")}
      /\ ReferencesOf["position"] = {Refers("position", "department", "department", "SET_NULL")}
  BY <1>1, <1>3, <1>4, TablesAre
<1>9. ReferencesOf["attendance"] = {Refers("attendance", "task", "task", "CASCADE"),
                                   Refers("attendance", "employee", "user", "SET_NULL")}
  BY <1>1, <1>3, <1>4, TablesAre
<1>10. ReferencesOf["user"] = UserReferences /\ ReferencesOf["exit"] = ExitReferences
  BY <1>1, <1>2, <1>4, TablesAre
<1> QED
  BY <1>5, <1>6, <1>7, <1>8, <1>9, <1>10

UserFields == {"organization", "department", "position", "region", "district", "special_rank"}

LEMMA UserFieldsAre == {x.field : x \in UserReferences} = UserFields
<1>1. \A x \in UserReferences : x.field \in UserFields
  BY DEF UserReferences, UserFields, Refers
<1>2. ASSUME NEW f \in UserFields
      PROVE  Refers("user", f, f, "SET_NULL") \in UserReferences /\ Refers("user", f, f, "SET_NULL").field = f
  BY DEF UserReferences, UserFields, Refers
<1> QED
  BY <1>1, <1>2

LEMMA ColumnsWritten ==
  /\ Columns["region"] = {} /\ Columns["special_rank"] = {}
  /\ Columns["district"] = {"region"} /\ Columns["mahalla"] = {"region", "district"}
  /\ Columns["department"] = {"organization"} /\ Columns["position"] = {"department"}
  /\ Columns["user"] = UserFields \cup {"pinfl", "hash"}
  /\ Columns["attendance"] = {"task", "employee", "hash"}
  /\ Columns["exit"] = {"employee", "assignment", "date", "returned"}
<1>1. {x.field : x \in ExitReferences} = {"employee", "assignment"}
  BY DEF ExitReferences, Refers
<1>2. \A t \in {"region", "special_rank", "district", "mahalla", "department", "position"} :
        Columns[t] = {x.field : x \in ReferencesOf[t]}
  BY TablesAre DEF Columns
<1>3. /\ Columns["region"] = {} /\ Columns["special_rank"] = {}
      /\ Columns["district"] = {"region"} /\ Columns["mahalla"] = {"region", "district"}
      /\ Columns["department"] = {"organization"} /\ Columns["position"] = {"department"}
  <2>1. Columns["region"] = {} /\ Columns["special_rank"] = {}
    BY <1>2, ReferencesWritten
  <2>2. /\ {x.field : x \in ReferencesOf["district"]} = {"region"}
        /\ {x.field : x \in ReferencesOf["mahalla"]} = {"region", "district"}
    BY ReferencesWritten DEF Refers
  <2>3. /\ {x.field : x \in ReferencesOf["department"]} = {"organization"}
        /\ {x.field : x \in ReferencesOf["position"]} = {"department"}
    BY ReferencesWritten DEF Refers
  <2> QED
    BY <1>2, <2>1, <2>2, <2>3
<1>4. Columns["user"] = UserFields \cup {"pinfl", "hash"}
  BY UserFieldsAre, ReferencesWritten, TablesAre DEF Columns
<1>5. Columns["attendance"] = {"task", "employee", "hash"}
  <2>1. {x.field : x \in ReferencesOf["attendance"]} = {"task", "employee"}
    BY ReferencesWritten DEF Refers
  <2> QED
    BY <2>1, TablesAre DEF Columns
<1>6. Columns["exit"] = {"employee", "assignment", "date", "returned"}
  BY <1>1, ReferencesWritten, TablesAre DEF Columns
<1> QED
  BY <1>3, <1>4, <1>5, <1>6

\* The tables that the administrators' requests write: what they may give are the columns, but the hash.
Administered == {"region", "district", "mahalla", "organization", "department", "position", "special_rank",
                 "transport_type", "transport", "user", "officer"}

LEMMA ColumnsAdministered ==
  ASSUME NEW t \in Administered
  PROVE  /\ t \in Tables /\ Columns[t] = Settable[t] \cup (IF t = "user" THEN {"hash"} ELSE {})
         /\ t = "user" => "pinfl" \in Settable[t] /\ "hash" \notin Settable[t]
         /\ t = "officer" => "date" \in Settable[t]
<1>1. t \in Tables
  BY TablesAre DEF Administered
<1>2. Columns[t] = Settable[t] \cup (IF t = "user" THEN {"hash"} ELSE {})
  BY <1>1 DEF Columns, Settable, Administered
<1>3. t = "user" => {x.field : x \in ReferencesOf[t]} = UserFields
  BY ReferencesWritten, UserFieldsAre
<1> QED
  BY <1>1, <1>2, <1>3 DEF Settable, UserFields

\* The columns that are not references are not named like one.
LEMMA OtherColumns ==
  \A x \in References : x.field \notin {"pinfl", "hash", "date", "status", "end", "returned"}
BY DEF References, DirectoryReferences, FleetReferences, UserReferences, DutyReferences, EventReferences,
       OfficerReferences, ExitReferences, AttendanceReferences, Refers

LEMMA ColumnKinds ==
  ASSUME NEW t \in Tables, NEW f \in Columns[t]
  PROVE  \/ \E x \in ReferencesOf[t] : f = x.field
         \/ t = "user" /\ f \in {"pinfl", "hash"}
         \/ t \in {"officer", "exit", "day", "event"} /\ f = "date"
         \/ t \in {"day", "event"} /\ f = "status"
         \/ t = "event" /\ f = "end"
         \/ t = "exit" /\ f = "returned"
         \/ t = "attendance" /\ f = "hash"
BY DEF Columns

------------------------------------------------------------------------------
(* Rows *)

AnyRow == UNION {[Columns[t] -> Values] : t \in Tables}

LEMMA HashesAre ==
  /\ \A p \in Pinfls \cup {None} : Hash(p) \in Hashes \cup {None} /\ (Hash(p) = None <=> p = None)
  /\ \A p, q \in Pinfls \cup {None} : Hash(p) = Hash(q) => p = q
  /\ Hash(None) = None
BY RowsAssumption DEF Hash, Hashes

LEMMA RowIsThere ==
  ASSUME NEW t \in Tables, NEW content, WellFormed(t, content)
  PROVE  content \in [Columns[t] -> Values] /\ content \in AnyRow /\ content # Gone
<1>1. ASSUME NEW f \in Columns[t] PROVE content[f] \in Values
  <2>1. CASE \E x \in ReferencesOf[t] : f = x.field
    <3>1. PICK x \in ReferencesOf[t] : f = x.field
      BY <2>1
    <3>2. x.to \in Tables
      BY <3>1 DEF ReferencesOf, Tables
    <3>3. content[f] \in RowsOf[x.to] \cup {None}
      BY <3>1 DEF WellFormed
    <3> QED
      BY <3>2, <3>3 DEF RowsOf, Values
  <2>2. CASE t = "user" /\ f \in {"pinfl", "hash"}
    BY <2>2, HashesAre DEF WellFormed, Values
  <2>3. CASE t \in {"officer", "exit", "day", "event"} /\ f \in {"date", "end", "status", "returned"}
    BY <2>3, <1>1, ColumnKinds, OtherColumns DEF WellFormed, Values, ReferencesOf
  <2>4. CASE t = "attendance" /\ f = "hash"
    BY <2>4 DEF WellFormed, Values
  <2> QED
    BY <2>1, <2>2, <2>3, <2>4, ColumnKinds
<1>2. content \in [Columns[t] -> Values]
  BY <1>1 DEF WellFormed
<1> QED
  BY <1>2, RowsAssumption DEF AnyRow

\* The rows of the database are well formed and fit each other.
RowsFit(rows) ==
  /\ rows \in [Rows -> AnyRow \cup {Gone}]
  /\ \A r \in Rows : rows[r] # Gone => WellFormed(Table[r], rows[r]) /\ FitsIn(rows, r, rows[r])

LEMMA TableOf == \A r \in Rows : Table[r] \in Tables /\ r \in RowsOf[Table[r]]
  BY RowsAssumption DEF RowsOf

LEMMA RowsAreOf == \A t \in Tables : \A r \in RowsOf[t] : r \in Rows /\ Table[r] = t
  BY DEF RowsOf

\* A row is written that fits.
LEMMA RowWritten ==
  ASSUME NEW rows, RowsFit(rows), NEW r \in Rows, NEW new, WellFormed(Table[r], new), FitsIn(rows, r, new)
  PROVE  RowsFit([rows EXCEPT ![r] = new])
<1> DEFINE after == [rows EXCEPT ![r] = new]
<1>1. new \in AnyRow /\ new # Gone
  BY RowIsThere, TableOf
<1>2. after \in [Rows -> AnyRow \cup {Gone}]
  BY <1>1 DEF RowsFit
<1>3. /\ \A o \in Rows : after[o] = IF o = r THEN new ELSE rows[o]
      /\ \A o \in Rows : rows[o] # Gone => after[o] # Gone
  BY <1>1 DEF RowsFit
<1> HIDE DEF after
<1>4. ASSUME NEW o \in Rows, after[o] # Gone
      PROVE  WellFormed(Table[o], after[o]) /\ FitsIn(after, o, after[o])
  <2>1. WellFormed(Table[o], after[o]) /\ FitsIn(rows, o, after[o])
    BY <1>3, <1>4 DEF RowsFit
  <2>2. ASSUME NEW x \in ReferencesOf[Table[o]], after[o][x.field] # None
        PROVE  after[o][x.field] \in RowsOf[x.to] /\ after[after[o][x.field]] # Gone
    <3>1. x.to \in Tables
      BY TableOf DEF ReferencesOf, Tables
    <3>2. after[o][x.field] \in RowsOf[x.to] /\ rows[after[o][x.field]] # Gone
      BY <2>1, <2>2 DEF FitsIn
    <3> QED
      BY <3>1, <3>2, <1>3, RowsAreOf
  <2>3. ASSUME NEW y \in RowsOf[Table[o]] \ {o}, after[y] # Gone
        PROVE  /\ Table[o] = "user" => after[o].pinfl = None \/ after[y].pinfl # after[o].pinfl
               /\ Table[o] = "officer" =>
                    <<after[y].organization, after[y].date>> # <<after[o].organization, after[o].date>>
    <3>1. y \in Rows /\ Table[y] = Table[o] /\ y # o
      BY <2>3, TableOf, RowsAreOf
    <3>2. CASE y # r
      BY <2>1, <2>3, <3>1, <3>2, <1>3 DEF FitsIn
    <3>3. CASE y = r
      <4>1. o \in RowsOf[Table[r]] \ {r} /\ rows[o] # Gone /\ after[o] = rows[o] /\ after[y] = new
        BY <1>3, <1>4, <3>1, <3>3, TableOf
      <4> QED
        BY <4>1, <3>1, <3>3 DEF FitsIn
    <3> QED
      BY <3>2, <3>3
  <2> QED
    BY <2>1, <2>2, <2>3 DEF FitsIn
<1> QED
  BY <1>2, <1>4 DEF RowsFit, after

\* What deletion leaves of a row: everything but the references that it sets to NULL.
LEMMA RowLeft ==
  ASSUME RowsFit(db), NEW gone \in SUBSET Rows, NEW r \in Rows, r \notin gone, db[r] # Gone
  PROVE  /\ DOMAIN Without(gone)[r] = Columns[Table[r]]
         /\ Without(gone)[r] = [f \in Columns[Table[r]] |-> Without(gone)[r][f]]
         /\ \A x \in ReferencesOf[Table[r]] :
              Without(gone)[r][x.field] =
                IF x.onDelete = "SET_NULL" /\ db[r][x.field] \in gone THEN None ELSE db[r][x.field]
         /\ \A f \in Columns[Table[r]] : f \in {"pinfl", "hash", "date", "status", "end", "returned"}
              => Without(gone)[r][f] = db[r][f]
         /\ \A f \in Columns[Table[r]] : Without(gone)[r][f] \in {None, db[r][f]}
<1> DEFINE after == Without(gone)
           cleared == {y.field : y \in RefersTo(r, gone, "SET_NULL")}
<1>1. after[r] = Over([f \in cleared |-> None], db[r])
  BY DEF Without, Exists
<1>2. DOMAIN db[r] = Columns[Table[r]]
  BY DEF RowsFit, WellFormed
<1>3. cleared \subseteq Columns[Table[r]]
  BY TableOf DEF RefersTo, Columns
<1>4. ASSUME NEW x \in ReferencesOf[Table[r]]
      PROVE x.field \in cleared <=> x.onDelete = "SET_NULL" /\ db[r][x.field] \in gone
  BY OneReferencePerField, TableOf DEF RefersTo, ReferencesOf, Exists
<1>5. \A f \in cleared : f \notin {"pinfl", "hash", "date", "status", "end", "returned"}
  BY OtherColumns, TableOf DEF RefersTo, ReferencesOf
<1> HIDE DEF cleared, after
<1>6. /\ DOMAIN after[r] = Columns[Table[r]]
      /\ \A f \in Columns[Table[r]] : after[r][f] = IF f \in cleared THEN None ELSE db[r][f]
      /\ after[r] = [f \in Columns[Table[r]] |-> after[r][f]]
  BY <1>1, <1>2, <1>3 DEF Over
<1>7. \A x \in ReferencesOf[Table[r]] :
        after[r][x.field] = IF x.onDelete = "SET_NULL" /\ db[r][x.field] \in gone THEN None ELSE db[r][x.field]
  <2>1. \A x \in ReferencesOf[Table[r]] : x.field \in Columns[Table[r]]
    BY TableOf DEF Columns
  <2> QED
    BY <2>1, <1>4, <1>6
<1>8. \A f \in Columns[Table[r]] : f \in {"pinfl", "hash", "date", "status", "end", "returned"} => after[r][f] = db[r][f]
  BY <1>5, <1>6
<1> QED
  BY <1>6, <1>7, <1>8 DEF after

\* The rows that deletion leaves refer to each other only.
LEMMA RowsLeft ==
  ASSUME RowsFit(db), NEW gone \in SUBSET Rows,
         \A x \in Rows \ gone : RefersTo(x, gone, "CASCADE") = {}
  PROVE  RowsFit(Without(gone))
<1> DEFINE after == Without(gone)
<1>1. \A r \in Rows : r \in gone \/ db[r] = Gone => after[r] = Gone
  BY DEF Without, Exists
<1>2. ASSUME NEW r \in Rows, r \notin gone, db[r] # Gone
      PROVE  /\ DOMAIN after[r] = Columns[Table[r]]
             /\ after[r] = [f \in Columns[Table[r]] |-> after[r][f]]
             /\ \A x \in ReferencesOf[Table[r]] :
                  after[r][x.field] = IF x.onDelete = "SET_NULL" /\ db[r][x.field] \in gone THEN None ELSE db[r][x.field]
             /\ \A f \in Columns[Table[r]] : f \in {"pinfl", "hash", "date", "status", "end", "returned"}
                  => after[r][f] = db[r][f]
  BY <1>2, RowLeft
<1> HIDE DEF after
<1>3. ASSUME NEW r \in Rows, r \notin gone, db[r] # Gone
      PROVE  WellFormed(Table[r], after[r]) /\ after[r] \in AnyRow /\ after[r] # Gone
  <2>1. WellFormed(Table[r], db[r])
    BY <1>3 DEF RowsFit
  <2>2. ASSUME NEW x \in ReferencesOf[Table[r]]
        PROVE  x.field \in Columns[Table[r]]
               /\ (after[r][x.field] \in RowsOf[x.to] \/ (after[r][x.field] = None /\ x.onDelete = "SET_NULL"))
    <3>1. x.field \in Columns[Table[r]]
      BY TableOf DEF Columns
    <3> QED
      BY <3>1, <1>2, <1>3, <2>1 DEF WellFormed
  <2>3. \A f \in Columns[Table[r]] : f \in {"pinfl", "hash", "date", "status", "end", "returned"} => after[r][f] = db[r][f]
    BY <1>2, <1>3
  <2>4. /\ Table[r] = "user" => {"pinfl", "hash"} \subseteq Columns[Table[r]]
        /\ Table[r] \in {"day", "event", "officer", "exit"} => "date" \in Columns[Table[r]]
        /\ Table[r] \in {"day", "event"} => "status" \in Columns[Table[r]]
        /\ Table[r] = "event" => "end" \in Columns[Table[r]]
        /\ Table[r] = "exit" => "returned" \in Columns[Table[r]]
        /\ Table[r] = "attendance" => "hash" \in Columns[Table[r]]
    BY TableOf DEF Columns
  <2>5. WellFormed(Table[r], after[r])
    BY <1>2, <1>3, <2>1, <2>2, <2>3, <2>4 DEF WellFormed
  <2> QED
    BY <2>5, RowIsThere, TableOf
<1>4. after \in [Rows -> AnyRow \cup {Gone}]
  <2>1. after = [r \in Rows |-> after[r]]
    BY DEF after, Without
  <2> QED
    BY <2>1, <1>1, <1>3
<1>5. ASSUME NEW r \in Rows, after[r] # Gone
      PROVE  FitsIn(after, r, after[r])
  <2>1. r \notin gone /\ db[r] # Gone /\ WellFormed(Table[r], db[r]) /\ FitsIn(db, r, db[r])
    BY <1>1, <1>5 DEF RowsFit
  <2>2. ASSUME NEW x \in ReferencesOf[Table[r]], after[r][x.field] # None
        PROVE  after[r][x.field] \in RowsOf[x.to] /\ after[after[r][x.field]] # Gone
    <3>1. x.field \in Columns[Table[r]] /\ x.to \in Tables /\ x \in References
      BY TableOf DEF Columns, ReferencesOf, Tables
    <3>2. after[r][x.field] = db[r][x.field] /\ ~(x.onDelete = "SET_NULL" /\ db[r][x.field] \in gone)
      BY <1>2, <2>1, <2>2, <3>1
    <3>3. db[r][x.field] \in RowsOf[x.to] /\ db[db[r][x.field]] # Gone
      BY <2>1, <2>2, <3>2 DEF FitsIn
    <3>4. db[r][x.field] \notin gone
      <4>1. x.onDelete = "CASCADE" => db[r][x.field] \notin gone
        BY <2>1 DEF RefersTo, Exists
      <4> QED
        BY <4>1, <3>1, <3>2, ReferenceKinds
    <3> QED
      BY <3>1, <3>2, <3>3, <3>4, <1>3, RowsAreOf
  <2>3. ASSUME NEW o \in RowsOf[Table[r]] \ {r}, after[o] # Gone
        PROVE  /\ Table[r] = "user" => after[r].pinfl = None \/ after[o].pinfl # after[r].pinfl
               /\ Table[r] = "officer" =>
                    <<after[o].organization, after[o].date>> # <<after[r].organization, after[r].date>>
    <3>1. o \in Rows /\ Table[o] = Table[r] /\ o \notin gone /\ db[o] # Gone
      BY <2>3, <1>1, TableOf, RowsAreOf
    <3>2. CASE Table[r] = "user"
      <4>1. "pinfl" \in Columns[Table[r]]
        BY <3>2, TableOf DEF Columns
      <4>2. after[r].pinfl = db[r].pinfl /\ after[o].pinfl = db[o].pinfl
        BY <4>1, <3>1, <2>1, <1>2
      <4> QED
        BY <4>2, <3>1, <3>2, <2>1, <2>3 DEF FitsIn
    <3>3. CASE Table[r] = "officer"
      <4>1. {"date", "organization"} \subseteq Columns[Table[r]]
            /\ Refers("officer", "organization", "organization", "CASCADE") \in ReferencesOf["officer"]
        BY <3>3, TableOf DEF Columns, ReferencesOf, References, OfficerReferences, Refers
      <4>2. PICK x \in ReferencesOf["officer"] : x.field = "organization" /\ x.onDelete = "CASCADE"
        BY <4>1 DEF Refers
      <4>3. after[r].organization = db[r].organization /\ after[o].organization = db[o].organization
        <5>1. x \in ReferencesOf[Table[r]] /\ x \in ReferencesOf[Table[o]]
          BY <3>1, <3>3
        <5>2. after[r][x.field] = db[r][x.field] /\ after[o][x.field] = db[o][x.field]
          BY <5>1, <4>2, <1>2, <3>1, <2>1
        <5> QED
          BY <5>2, <4>2
      <4>4. after[r].date = db[r].date /\ after[o].date = db[o].date
        BY <4>1, <3>1, <2>1, <1>2
      <4> QED
        BY <4>3, <4>4, <3>1, <3>3, <2>1, <2>3 DEF FitsIn
    <3> QED
      BY <3>2, <3>3
  <2> QED
    BY <2>2, <2>3 DEF FitsIn
<1> QED
  BY <1>1, <1>3, <1>4, <1>5 DEF RowsFit, after

------------------------------------------------------------------------------
(* What a request makes of a row *)

\* A value that a column may hold.
Holds(t, f, v) ==
  /\ \A x \in ReferencesOf[t] : x.field = f => v \in RowsOf[x.to] \/ (v = None /\ x.onDelete = "SET_NULL")
  /\ t = "user" /\ f = "pinfl" => v \in Pinfls \cup {None}
  /\ t = "officer" /\ f = "date" => v \in Int

LEMMA GivenHolds ==
  ASSUME NEW t \in Administered, NEW fields \in SUBSET Settable[t], NEW g \in Given(t, fields), NEW f \in fields
  PROVE  DOMAIN g = fields /\ Holds(t, f, g[f])
<1>1. t \in Tables
  BY ColumnsAdministered
<1>2. DOMAIN g = fields /\ g[f] \in Choices(t, f)
  BY DEF Given
<1>3. CASE f = "pinfl"
  BY <1>1, <1>2, <1>3, OtherColumns DEF Choices, Holds, ReferencesOf
<1>4. CASE f = "date"
  BY <1>1, <1>2, <1>4, OtherColumns, RowsAssumption DEF Choices, Holds, ReferencesOf
<1>5. CASE f \notin {"pinfl", "date"}
  <2>1. PICK x \in ReferencesOf[t] :
          x.field = f /\ g[f] \in In(x.to) \cup (IF x.onDelete = "CASCADE" THEN {} ELSE {None})
    BY <1>2, <1>5 DEF Choices
  <2>2. x \in References /\ \A y \in ReferencesOf[t] : y.field = f => y = x
    BY <1>1, <2>1, OneReferencePerField DEF ReferencesOf
  <2>3. g[f] \in RowsOf[x.to] \/ (g[f] = None /\ x.onDelete = "SET_NULL")
    BY <2>1, <2>2, ReferenceKinds DEF In
  <2> QED
    BY <2>2, <2>3, <1>2, <1>5 DEF Holds
<1> QED
  BY <1>2, <1>3, <1>4, <1>5

LEMMA BlankHolds ==
  ASSUME NEW t \in Administered, NEW f \in Settable[t] \ Required[t]
  PROVE  Holds(t, f, None)
<1>1. t \in Tables
  BY ColumnsAdministered
<1>2. f # "date" /\ \A x \in ReferencesOf[t] : x.field = f => x.onDelete # "CASCADE"
  BY <1>1 DEF Required
<1>3. \A x \in ReferencesOf[t] : x.field = f => x.onDelete = "SET_NULL"
  BY <1>1, <1>2, ReferenceKinds DEF ReferencesOf
<1> QED
  BY <1>2, <1>3 DEF Holds

\* What is given, put over a row that holds the rest, is well formed once its hash is computed.
LEMMA MadeOfGiven ==
  ASSUME NEW t \in Administered, NEW fields \in SUBSET Settable[t], NEW g \in Given(t, fields),
         NEW base, DOMAIN base = Columns[t], \A f \in Settable[t] \ fields : Holds(t, f, base[f])
  PROVE  WellFormed(t, WithHash(t, Over(g, base)))
<1> DEFINE over == Over(g, base)
           new == WithHash(t, over)
<1>1. /\ t \in Tables /\ Columns[t] = Settable[t] \cup (IF t = "user" THEN {"hash"} ELSE {})
      /\ t = "user" => "pinfl" \in Settable[t] /\ "hash" \notin Settable[t] /\ "hash" \in Columns[t]
      /\ t = "officer" => "date" \in Settable[t]
  BY ColumnsAdministered
<1>2. DOMAIN g = fields
  BY DEF Given
<1>3. over = [f \in Columns[t] |-> IF f \in fields THEN g[f] ELSE base[f]]
  BY <1>1, <1>2 DEF Over
<1>4. \A f \in Settable[t] : Holds(t, f, over[f])
  BY <1>1, <1>3, GivenHolds
<1> HIDE DEF over
<1>5. /\ DOMAIN new = Columns[t] /\ new = [f \in Columns[t] |-> new[f]]
      /\ \A f \in Settable[t] : new[f] = over[f]
      /\ t = "user" => new.hash = Hash(new.pinfl)
  <2>1. CASE t = "user"
    <3>1. new = [over EXCEPT !["hash"] = Hash(over.pinfl)]
      BY <2>1 DEF WithHash
    <3>2. /\ DOMAIN new = Columns[t] /\ new = [f \in Columns[t] |-> new[f]]
          /\ \A f \in Columns[t] : f # "hash" => new[f] = over[f]
          /\ new["hash"] = Hash(over["pinfl"])
      BY <3>1, <1>1, <1>3, <2>1
    <3> QED
      BY <3>2, <1>1, <2>1
  <2>2. CASE t # "user"
    BY <2>2, <1>1, <1>3 DEF WithHash
  <2> QED
    BY <2>1, <2>2
<1>6. ASSUME NEW x \in ReferencesOf[t]
      PROVE  new[x.field] \in RowsOf[x.to] \/ (new[x.field] = None /\ x.onDelete = "SET_NULL")
  <2>1. x.field \in Settable[t]
    BY <1>1 DEF Settable
  <2> QED
    BY <2>1, <1>4, <1>5 DEF Holds
<1>7. /\ t = "user" => new.pinfl \in Pinfls \cup {None}
      /\ t = "officer" => new.date \in Int
  BY <1>1, <1>4, <1>5 DEF Holds
<1> HIDE DEF new
<1>8. WellFormed(t, new)
  BY <1>5, <1>6, <1>7 DEF WellFormed, Administered
<1> QED
  BY <1>8 DEF new, over

\* A POST offers what is required; roles go with users only.
LEMMA OffersAre ==
  ASSUME NEW t \in Administered, NEW offer \in Offers(t)
  PROVE  /\ \E fields \in SUBSET Settable[t] : Required[t] \subseteq fields /\ offer[1] \in Given(t, fields)
         /\ offer[2] \in RoleSets \cup {None} /\ (offer[2] # None => t = "user")
<1>1. t \in Tables /\ Required[t] \subseteq Settable[t]
  BY ColumnsAdministered DEF Required
<1>2. CASE \E f \in Settable[t] : offer \in Given(t, Required[t] \cup {f}) \X {None}
  BY <1>1, <1>2
<1>3. CASE offer \in Given(t, Required[t]) \X {None}
  BY <1>1, <1>3
<1>4. CASE t = "user" /\ offer \in {[f \in {} |-> None]} \X (RoleSets \ {{}})
  <2>1. Required[t] = {}
    <3>1. \A x \in ReferencesOf["user"] : x.onDelete = "SET_NULL"
      BY ReferencesWritten DEF UserReferences, Refers
    <3>2. "date" \notin Settable["user"]
      BY ReferencesWritten, UserFieldsAre, TablesAre DEF Settable, UserFields
    <3> QED
      BY <3>1, <3>2, <1>1, <1>4 DEF Required
  <2>2. offer[1] = [f \in {} |-> None] /\ offer[2] \in RoleSets
    BY <1>4
  <2>3. offer[1] \in Given(t, {})
    BY <2>2 DEF Given
  <2> QED
    BY <1>4, <2>1, <2>2, <2>3
<1>5. \/ offer \in UNION {Given(t, Required[t] \cup more) \X {None} : more \in {{f} : f \in Settable[t]}}
      \/ offer \in IF t = "user" THEN {[f \in {} |-> None]} \X (RoleSets \ {{}}) ELSE Given(t, Required[t]) \X {None}
  BY DEF Offers
<1>6. offer \in UNION {Given(t, Required[t] \cup more) \X {None} : more \in {{f} : f \in Settable[t]}}
        => \E f \in Settable[t] : offer \in Given(t, Required[t] \cup {f}) \X {None}
  OBVIOUS
<1> QED
  BY <1>2, <1>3, <1>4, <1>5, <1>6

------------------------------------------------------------------------------
(* The data: the rows fit each other, and the audit log and the attendance account for users *)

LogTyped ==
  \A x \in audit : /\ x[1] \in {u \in used : Table[u] = "user"}
                   /\ x[2] \in Settable["user"] \cup {"hash", "DELETE"}
                   /\ x[3] \in Rows \cup Pinfls \cup {Hash(p) : p \in Pinfls} \cup {None}

DataTyped ==
  /\ used \in SUBSET Rows /\ \A r \in Rows : Exists(r) => r \in used
  /\ roles \in [RowsOf["user"] -> SUBSET Roles]
  /\ first \in [Rows -> AnyRow \cup {Gone}]
  /\ spent \in Nat
  /\ LogTyped

\* Whose an exit is and of what day never changes.
ExitsKept == \A x \in In("exit") : db[x].employee = first[x].employee /\ db[x].date = first[x].date

DataInv == RowsFit(db) /\ DataTyped /\ AuditComplete /\ AttendanceOfOwner /\ ExitsKept

\* Every value of the row was inserted with it or is in the log.
Logged(u, content, firsts, log) ==
  \A f \in DOMAIN content : content[f] \in {None, firsts[u][f]} \/ <<u, f, content[f]>> \in log

LEMMA RowFacts ==
  ASSUME RowsFit(db), NEW r \in Rows, Exists(r)
  PROVE  /\ WellFormed(Table[r], db[r]) /\ DOMAIN db[r] = Columns[Table[r]]
         /\ \A x \in References : x.of = Table[r] =>
              /\ db[r][x.field] # None => db[r][x.field] \in In(x.to)
              /\ x.onDelete = "CASCADE" => db[r][x.field] \in In(x.to)
         /\ \A t \in Tables : Table[r] = t => r \in In(t)
<1>1. WellFormed(Table[r], db[r]) /\ FitsIn(db, r, db[r])
  BY DEF RowsFit, Exists
<1>2. ASSUME NEW x \in References, x.of = Table[r]
      PROVE  /\ db[r][x.field] # None => db[r][x.field] \in In(x.to)
             /\ x.onDelete = "CASCADE" => db[r][x.field] \in In(x.to)
  <2>1. x \in ReferencesOf[Table[r]] /\ x.to \in Tables
    BY <1>2, TableOf DEF ReferencesOf, Tables
  <2>2. db[r][x.field] # None => db[r][x.field] \in In(x.to)
    BY <1>1, <2>1 DEF FitsIn, In, Exists
  <2>3. x.onDelete = "CASCADE" => db[r][x.field] \in RowsOf[x.to]
    BY <1>1, <2>1 DEF WellFormed
  <2>4. \A o \in RowsOf[x.to] : o # None
    BY <2>1, RowsAreOf, RowsAssumption
  <2> QED
    BY <2>2, <2>3, <2>4
<1>3. DOMAIN db[r] = Columns[Table[r]]
  BY <1>1 DEF WellFormed
<1> QED
  BY <1>1, <1>2, <1>3, TableOf DEF In

LEMMA InRows == ASSUME NEW t \in Tables, NEW r
                PROVE  r \in In(t) <=> r \in Rows /\ Table[r] = t /\ Exists(r)
BY DEF In, RowsOf

\* An edit changes some fields; roles go with users only.
LEMMA ChangesAre ==
  ASSUME NEW t \in Administered, NEW offer \in Changes(t)
  PROVE  /\ \E fields \in SUBSET Settable[t] : offer[1] \in Given(t, fields)
         /\ offer[2] \in RoleSets \cup {None} /\ (offer[2] # None => t = "user")
<1>1. t \in Tables /\ Required[t] \subseteq Settable[t]
  BY ColumnsAdministered DEF Required
<1>2. CASE \E f \in Settable[t] : offer \in Given(t, {f}) \X {None}
  BY <1>1, <1>2
<1>3. CASE offer \in Given(t, Required[t]) \X {None}
  BY <1>1, <1>3
<1>4. CASE t = "user" /\ offer \in {[f \in {} |-> None]} \X RoleSets
  <2>1. offer[1] = [f \in {} |-> None] /\ offer[2] \in RoleSets
    BY <1>4
  <2>2. offer[1] \in Given(t, {})
    BY <2>1 DEF Given
  <2> QED
    BY <1>4, <2>1, <2>2
<1>5. \/ offer \in UNION {Given(t, {f}) \X {None} : f \in Settable[t]}
      \/ offer \in Given(t, Required[t]) \X {None}
      \/ offer \in IF t = "user" THEN {[f \in {} |-> None]} \X RoleSets ELSE {}
  BY DEF Changes
<1>6. offer \in UNION {Given(t, {f}) \X {None} : f \in Settable[t]}
        => \E f \in Settable[t] : offer \in Given(t, {f}) \X {None}
  OBVIOUS
<1> QED
  BY <1>2, <1>3, <1>4, <1>5, <1>6

\* An attendance names a user who has its hash, or had it.
OwnerKnown(content) ==
  LET u == content.employee IN
  u = None \/ content.hash \in {first[u].hash, db[u].hash} \/ <<u, "hash", content.hash>> \in audit

LEMMA AttendanceFacts ==
  ASSUME RowsFit(db), NEW x \in In("attendance")
  PROVE  /\ x \in Rows /\ Table[x] = "attendance" /\ Exists(x) /\ db[x].hash \in Hashes /\ db[x].hash # None
         /\ db[x].employee # None => db[x].employee \in In("user")
<1>1. x \in Rows /\ Table[x] = "attendance" /\ Exists(x)
  BY InRows, TablesAre
<1>2. PICK e \in References : e.of = "attendance" /\ e.field = "employee" /\ e.to = "user"
  <2>1. Refers("attendance", "employee", "user", "SET_NULL") \in References
    BY DEF References, AttendanceReferences
  <2> QED
    BY <2>1 DEF Refers
<1>3. db[x].employee # None => db[x].employee \in In("user")
  BY <1>1, <1>2, RowFacts
<1>4. db[x].hash \in Hashes
  BY <1>1, RowFacts DEF WellFormed
<1> QED
  BY <1>1, <1>3, <1>4, RowsAssumption

\* A row is written: a new one, or one that was there and, of a user, has been logged.
LEMMA DataAfterWrite ==
  ASSUME DataInv, NEW r \in Rows, NEW new, WellFormed(Table[r], new), Fits(r, new),
         db' = [db EXCEPT ![r] = new], UNCHANGED <<roles, audit>>, spent' \in Nat,
         \/ r \in used /\ UNCHANGED <<used, first>>
            /\ (Table[r] = "user" => Logged(r, new, first, audit))
            /\ (Table[r] = "exit" => Exists(r) /\ new.employee = db[r].employee /\ new.date = db[r].date)
         \/ r \notin used /\ used' = used \cup {r} /\ first' = [first EXCEPT ![r] = new],
         Table[r] = "attendance" => OwnerKnown(new)
  PROVE  DataInv'
<1>1. RowsFit(db')
  BY RowWritten DEF DataInv, Fits
<1>2. new \in AnyRow /\ new # Gone
  BY RowIsThere, TableOf
<1>3. /\ \A o \in Rows : db'[o] = IF o = r THEN new ELSE db[o]
      /\ used' \in SUBSET Rows /\ used \subseteq used' /\ used' \subseteq used \cup {r} /\ r \in used'
      /\ first' \in [Rows -> AnyRow \cup {Gone}] /\ \A o \in Rows : o \in used => first'[o] = first[o]
      /\ r \notin used => first'[r] = new
  BY <1>2 DEF DataInv, DataTyped, RowsFit
<1>4. DataTyped'
  BY <1>3, <1>2 DEF DataInv, DataTyped, LogTyped, Exists
<1>5. AuditComplete'
  <2> SUFFICES ASSUME NEW u \in used', Table[u] = "user"
               PROVE  /\ db'[u] # Gone => \A f \in DOMAIN db'[u] :
                            db'[u][f] \in {None, first'[u][f]} \/ <<u, f, db'[u][f]>> \in audit'
                      /\ db'[u] # Gone \/ <<u, "DELETE", None>> \in audit'
    BY DEF AuditComplete, Exists
  <2>1. CASE u = r
    BY <2>1, <1>2, <1>3 DEF Logged
  <2>2. CASE u # r
    BY <2>2, <1>3 DEF DataInv, AuditComplete, Exists
  <2> QED
    BY <2>1, <2>2
<1>6. AttendanceOfOwner'
  <2> SUFFICES ASSUME NEW x \in In("attendance")'
               PROVE  LET u == db'[x].employee IN
                      \/ u = None \/ db'[x].hash \in {first'[u].hash, db'[u].hash}
                      \/ <<u, "hash", db'[x].hash>> \in audit'
    BY DEF AttendanceOfOwner
  <2>1. x \in Rows /\ Table[x] = "attendance" /\ db'[x] # Gone
    BY TablesAre DEF In, RowsOf, Exists
  <2>2. ASSUME NEW o \in In("user"), NEW h \in Hashes,
               h \in {first[o].hash, db[o].hash} \/ <<o, "hash", h>> \in audit
        PROVE  h \in {first'[o].hash, db'[o].hash} \/ <<o, "hash", h>> \in audit'
    <3>1. o \in Rows /\ Table[o] = "user" /\ Exists(o) /\ o \in used
      BY InRows, TablesAre DEF DataInv, DataTyped
    <3>2. "hash" \in DOMAIN db[o] /\ h # None
      BY <3>1, RowFacts, ColumnsWritten, RowsAssumption DEF DataInv
    <3>3. h = first[o].hash \/ <<o, "hash", h>> \in audit \/ (h = db[o].hash /\ o # r)
      BY <2>2, <3>1, <3>2 DEF DataInv, AuditComplete
    <3> QED
      BY <3>1, <3>3, <1>3
  <2>3. CASE x # r
    <3>1. db'[x] = db[x] /\ x \in In("attendance")
      BY <2>1, <2>3, <1>3, InRows, TablesAre DEF Exists
    <3>2. OwnerKnown(db[x])
      BY <3>1 DEF OwnerKnown, DataInv, AttendanceOfOwner
    <3> QED
      BY <3>1, <3>2, <2>2, AttendanceFacts DEF OwnerKnown, DataInv
  <2>4. CASE x = r
    <3>1. db'[x] = new /\ OwnerKnown(new) /\ new.hash \in Hashes
      BY <2>1, <2>4, <1>3 DEF WellFormed
    <3>2. new.employee # None => new.employee \in In("user")
      <4>1. PICK e \in References : e.of = "attendance" /\ e.field = "employee" /\ e.to = "user"
        <5>1. Refers("attendance", "employee", "user", "SET_NULL") \in References
          BY DEF References, AttendanceReferences
        <5> QED
          BY <5>1 DEF Refers
      <4>2. e \in ReferencesOf[Table[r]]
        BY <4>1, <2>1, <2>4, TablesAre DEF ReferencesOf
      <4> QED
        BY <4>1, <4>2 DEF Fits, FitsIn, In, Exists
    <3> QED
      BY <3>1, <3>2, <2>2 DEF OwnerKnown
  <2> QED
    BY <2>3, <2>4
<1>7. ExitsKept'
  <2> SUFFICES ASSUME NEW x \in In("exit")'
               PROVE  db'[x].employee = first'[x].employee /\ db'[x].date = first'[x].date
    BY DEF ExitsKept
  <2>1. x \in Rows /\ Table[x] = "exit" /\ db'[x] # Gone
    BY TablesAre DEF In, RowsOf, Exists
  <2>2. CASE x # r
    <3>1. x \in In("exit") /\ x \in used /\ db'[x] = db[x]
      BY <2>1, <2>2, <1>3, InRows, TablesAre DEF Exists, DataInv, DataTyped
    <3> QED
      BY <3>1, <1>3 DEF DataInv, ExitsKept
  <2>3. CASE x = r /\ r \in used
    <3>1. r \in In("exit") /\ new.employee = db[r].employee /\ new.date = db[r].date
      BY <2>1, <2>3, InRows, TablesAre
    <3>2. db[r].employee = first[r].employee /\ db[r].date = first[r].date
      BY <3>1 DEF DataInv, ExitsKept
    <3> QED
      BY <3>1, <3>2, <2>1, <2>3, <1>3
  <2>4. CASE x = r /\ r \notin used
    BY <2>4, <2>1, <1>3
  <2> QED
    BY <2>2, <2>3, <2>4
<1>8. RowsFit(db)'
  BY <1>1 DEF RowsFit
<1> QED
  BY <1>4, <1>5, <1>6, <1>7, <1>8 DEF DataInv

LEMMA EmployeeReference ==
  \E x \in ReferencesOf["attendance"] :
    x \in References /\ x.of = "attendance" /\ x.field = "employee" /\ x.to = "user" /\ x.onDelete = "SET_NULL"
<1>1. Refers("attendance", "employee", "user", "SET_NULL") \in References
  BY DEF References, AttendanceReferences
<1> QED
  BY <1>1, TablesAre DEF Refers, ReferencesOf

LEMMA ValuesLeft ==
  ASSUME RowsFit(db), NEW gone \in SUBSET Rows, NEW r \in Rows, r \notin gone, db[r] # Gone
  PROVE  /\ "hash" \in Columns[Table[r]] => Without(gone)[r].hash = db[r].hash
         /\ "date" \in Columns[Table[r]] => Without(gone)[r].date = db[r].date
<1>1. \A f \in Columns[Table[r]] : f \in {"pinfl", "hash", "date", "status", "end", "returned"}
        => Without(gone)[r][f] = db[r][f]
  BY RowLeft
<1> QED
  BY <1>1

\* Rows are deleted that none takes part in that stays; users among them are in the log.
LEMMA DataAfterDeletion ==
  ASSUME DataInv, NEW gone \in SUBSET used, db' = Without(gone), UNCHANGED <<used, first>>, spent' \in Nat,
         \A x \in Rows \ gone : RefersTo(x, gone, "CASCADE") = {},
         roles' \in [RowsOf["user"] -> SUBSET Roles],
         audit' = audit \cup {<<x, "DELETE", None>> : x \in {y \in gone : Table[y] = "user"}}
  PROVE  DataInv'
<1>1. gone \in SUBSET Rows
  BY DEF DataInv, DataTyped
<1>2. RowsFit(db')
  BY <1>1, RowsLeft DEF DataInv
<1>3. \A r \in Rows : db'[r] # Gone => r \notin gone /\ db[r] # Gone
  BY DEF Without, Exists
<1>4. ASSUME NEW r \in Rows, r \notin gone, db[r] # Gone
      PROVE  /\ DOMAIN db'[r] = Columns[Table[r]] /\ DOMAIN db[r] = Columns[Table[r]]
             /\ \A x \in ReferencesOf[Table[r]] :
                  db'[r][x.field] = IF x.onDelete = "SET_NULL" /\ db[r][x.field] \in gone THEN None ELSE db[r][x.field]
             /\ \A f \in Columns[Table[r]] : f \in {"hash", "date"} => db'[r][f] = db[r][f]
             /\ \A f \in Columns[Table[r]] : db'[r][f] \in {None, db[r][f]}
  <2>1. DOMAIN db[r] = Columns[Table[r]]
    BY <1>4, RowFacts DEF DataInv, Exists
  <2>2. /\ DOMAIN Without(gone)[r] = Columns[Table[r]]
        /\ \A x \in ReferencesOf[Table[r]] :
             Without(gone)[r][x.field] =
               IF x.onDelete = "SET_NULL" /\ db[r][x.field] \in gone THEN None ELSE db[r][x.field]
        /\ \A f \in Columns[Table[r]] : f \in {"hash", "date"} => Without(gone)[r][f] = db[r][f]
        /\ \A f \in Columns[Table[r]] : Without(gone)[r][f] \in {None, db[r][f]}
    <3>1. RowsFit(db)
      BY DEF DataInv
    <3>2. \A f \in Columns[Table[r]] : f \in {"hash", "date"} => Without(gone)[r][f] = db[r][f]
      BY <3>1, <1>1, <1>4, ValuesLeft
    <3>3. \A f \in Columns[Table[r]] : Without(gone)[r][f] \in {None, db[r][f]}
      BY <3>1, <1>1, <1>4, RowLeft
    <3>4. \A x \in ReferencesOf[Table[r]] :
             Without(gone)[r][x.field] =
               IF x.onDelete = "SET_NULL" /\ db[r][x.field] \in gone THEN None ELSE db[r][x.field]
      BY <3>1, <1>1, <1>4, RowLeft
    <3>5. DOMAIN Without(gone)[r] = Columns[Table[r]]
      BY <3>1, <1>1, <1>4, RowLeft
    <3> QED
      BY <3>2, <3>3, <3>4, <3>5
  <2> QED
    BY <2>1, <2>2
<1>5. audit \subseteq audit' /\ \A u \in gone : Table[u] = "user" => <<u, "DELETE", None>> \in audit'
  OBVIOUS
<1>6. DataTyped'
  <2>1. LogTyped'
    BY DEF LogTyped, DataInv, DataTyped
  <2> QED
    BY <2>1, <1>3 DEF DataInv, DataTyped, Exists
<1>7. AuditComplete'
  <2> SUFFICES ASSUME NEW u \in used, Table[u] = "user"
               PROVE  /\ db'[u] # Gone => \A f \in DOMAIN db'[u] :
                            db'[u][f] \in {None, first[u][f]} \/ <<u, f, db'[u][f]>> \in audit'
                      /\ db'[u] # Gone \/ <<u, "DELETE", None>> \in audit'
    BY DEF AuditComplete, Exists
  <2>1. u \in Rows
    BY DEF DataInv, DataTyped
  <2>2. ASSUME db'[u] # Gone, NEW f \in DOMAIN db'[u]
        PROVE  db'[u][f] \in {None, first[u][f]} \/ <<u, f, db'[u][f]>> \in audit'
    <3>1. u \notin gone /\ db[u] # Gone
      BY <2>1, <2>2, <1>3
    <3>2. f \in DOMAIN db[u] /\ db'[u][f] \in {None, db[u][f]}
      BY <3>1, <2>1, <2>2, <1>4
    <3> QED
      BY <3>1, <3>2, <1>5 DEF DataInv, AuditComplete, Exists
  <2>3. db'[u] = Gone => u \in gone \/ db[u] = Gone
    <3>1. ASSUME u \notin gone, db[u] # Gone PROVE db'[u] # Gone
      <4>1. DOMAIN Without(gone)[u] = Columns[Table[u]]
            /\ Without(gone)[u] = [f \in Columns[Table[u]] |-> Without(gone)[u][f]]
            /\ \A f \in Columns[Table[u]] : Without(gone)[u][f] \in {None, db[u][f]}
        BY <3>1, <2>1, <1>1, RowLeft DEF DataInv
      <4>2. \A f \in Columns[Table[u]] : db[u][f] \in Values
        <5>1. WellFormed(Table[u], db[u])
          BY <2>1, <3>1, RowFacts DEF DataInv, Exists
        <5>2. db[u] \in [Columns[Table[u]] -> Values]
          <6>1. PICK t \in Tables : db[u] \in [Columns[t] -> Values]
            BY <2>1, <3>1 DEF DataInv, RowsFit, AnyRow
          <6>2. DOMAIN db[u] = Columns[Table[u]]
            BY <5>1 DEF WellFormed
          <6> QED
            BY <6>1, <6>2
        <5> QED
          BY <5>2
      <4>3. Without(gone)[u] \in [Columns[Table[u]] -> Values]
        BY <4>1, <4>2 DEF Values
      <4> QED
        BY <4>3, <2>1, TableOf, RowsAssumption
    <3> QED
      BY <3>1
  <2> QED
    BY <2>2, <2>3, <1>5 DEF DataInv, AuditComplete, Exists
<1>8. AttendanceOfOwner'
  <2> SUFFICES ASSUME NEW x \in In("attendance")'
               PROVE  LET u == db'[x].employee IN
                      \/ u = None \/ db'[x].hash \in {first[u].hash, db'[u].hash}
                      \/ <<u, "hash", db'[x].hash>> \in audit'
    BY DEF AttendanceOfOwner
  <2>1. x \in Rows /\ Table[x] = "attendance" /\ db'[x] # Gone
    BY TablesAre DEF In, RowsOf, Exists
  <2>2. x \notin gone /\ db[x] # Gone /\ x \in In("attendance")
    BY <2>1, <1>3, InRows, TablesAre DEF Exists
  <2>3. db'[x].hash = db[x].hash
    BY <2>1, <2>2, <1>4, ColumnsWritten
  <2>4. db'[x].employee = IF db[x].employee \in gone THEN None ELSE db[x].employee
    <3>1. PICK e \in ReferencesOf["attendance"] : e.field = "employee" /\ e.onDelete = "SET_NULL"
      BY EmployeeReference
    <3> QED
      BY <2>1, <2>2, <1>4, <3>1
  <2>5. CASE db'[x].employee # None
    <3>1. db'[x].employee = db[x].employee /\ db[x].employee \notin gone /\ db[x].employee \in In("user")
      BY <2>2, <2>4, <2>5, AttendanceFacts DEF DataInv
    <3>2. PICK u \in In("user") : u = db[x].employee
      BY <3>1
    <3>3. u \in Rows /\ Table[u] = "user" /\ db[u] # Gone /\ u \notin gone
      BY <3>1, <3>2, InRows, TablesAre DEF Exists
    <3>4. db'[u].hash = db[u].hash
      BY <3>3, <1>4, ColumnsWritten
    <3>5. db[x].hash \in {first[u].hash, db[u].hash} \/ <<u, "hash", db[x].hash>> \in audit
      BY <3>2, <2>2, <2>5, <3>1 DEF DataInv, AttendanceOfOwner
    <3> QED
      BY <3>1, <3>2, <3>4, <3>5, <2>3, <1>5
  <2> QED
    BY <2>5
<1>9. ExitsKept'
  <2> SUFFICES ASSUME NEW x \in In("exit")'
               PROVE  db'[x].employee = first[x].employee /\ db'[x].date = first[x].date
    BY DEF ExitsKept
  <2>1. x \in Rows /\ Table[x] = "exit" /\ db'[x] # Gone
    BY TablesAre DEF In, RowsOf, Exists
  <2>2. x \notin gone /\ db[x] # Gone /\ x \in In("exit")
    BY <2>1, <1>3, InRows, TablesAre DEF Exists
  <2>3. PICK e \in ReferencesOf["exit"] : e.field = "employee" /\ e.onDelete = "CASCADE"
    BY ReferencesWritten DEF ExitReferences, Refers
  <2>4. db'[x].employee = db[x].employee
    BY <2>1, <2>2, <2>3, <1>4
  <2>5. db'[x].date = db[x].date
    BY <2>1, <2>2, <1>4, ColumnsWritten
  <2> QED
    BY <2>2, <2>4, <2>5 DEF DataInv, ExitsKept
<1>10. RowsFit(db)'
  BY <1>2 DEF RowsFit
<1> QED
  BY <1>6, <1>7, <1>8, <1>9, <1>10 DEF DataInv

\* The log grows.
LEMMA DataAfterLog ==
  ASSUME DataInv, UNCHANGED <<db, used, roles, first>>, spent' \in Nat, audit \subseteq audit', LogTyped'
  PROVE  DataInv'
<1>1. AuditComplete'
  BY DEF DataInv, AuditComplete, Exists
<1>2. AttendanceOfOwner' /\ ExitsKept'
  BY DEF DataInv, AttendanceOfOwner, ExitsKept, In, Exists
<1>3. DataTyped'
  BY DEF DataInv, DataTyped, Exists
<1> QED
  BY <1>1, <1>2, <1>3 DEF DataInv

\* Nothing but the roles and the requests change.
LEMMA DataKept ==
  ASSUME DataInv, UNCHANGED <<db, used, first, audit>>, spent' \in Nat, roles' \in [RowsOf["user"] -> SUBSET Roles]
  PROVE  DataInv'
<1>1. AuditComplete' /\ AttendanceOfOwner' /\ ExitsKept'
  BY DEF DataInv, AuditComplete, AttendanceOfOwner, ExitsKept, In, Exists
<1>2. DataTyped'
  BY DEF DataInv, DataTyped, LogTyped, Exists
<1> QED
  BY <1>1, <1>2 DEF DataInv

------------------------------------------------------------------------------
(* The requests *)

\* What was collected belongs to the row asked for, directly or through others.
Collected(m, firsts) ==
  /\ m.row \in DOMAIN m.seen /\ Table[m.row] \in Administered
  /\ \A x \in DOMAIN m.seen :
       /\ \/ x = m.row
          \/ \E y \in ReferencesOf[Table[x]] :
               /\ y.onDelete = "CASCADE" /\ y.field \in DOMAIN m.seen[x]
               /\ m.seen[x][y.field] \in DOMAIN m.seen /\ Table[m.seen[x][y.field]] = y.to
       /\ Table[x] = "exit" => m.seen[x].employee = firsts[x].employee

\* What a request holds between its statements: rows that were there, and values that a column may
\* hold; of a user, those that have been logged once the save is due.
RequestOK(m, there, firsts, log) ==
  \/ m = Idle
  \/ /\ m.step \in {"audit", "write", "roles"} /\ m = Saving(m.step, m.row, m.new, m.roles)
     /\ m.row \in there /\ Table[m.row] \in Administered /\ WellFormed(Table[m.row], m.new)
     /\ m.roles \in RoleSets \cup {None}
     /\ m.step \in {"audit", "roles"} \/ m.roles # None => Table[m.row] = "user"
     /\ m.step = "roles" => m.roles # None
     /\ m.step = "write" /\ Table[m.row] = "user" => Logged(m.row, m.new, firsts, log)
  \/ /\ m.step = "set" /\ m = [step |-> "set", row |-> m.row, roles |-> m.roles, old |-> m.old]
     /\ m.row \in there /\ Table[m.row] = "user" /\ m.roles \in SUBSET Roles /\ m.old \in SUBSET Roles
  \/ /\ m.step = "purge" /\ m = [step |-> "purge", row |-> m.row, seen |-> m.seen]
     /\ DOMAIN m.seen \subseteq there /\ Collected(m, firsts)
  \/ /\ m.step = "report" /\ m = [step |-> "report", row |-> m.row, hash |-> m.hash]
     /\ m.row \in there /\ Table[m.row] = "task" /\ m.hash \in Hashes

RequestsOK(requests, there, firsts, log) ==
  /\ requests = [c \in Clients |-> requests[c]]
  /\ \A c \in Clients : RequestOK(requests[c], there, firsts, log)

RegistryInv == DataInv /\ RequestsOK(req, used, first, audit)

LEMMA RequestStays ==
  ASSUME NEW m, NEW there, NEW firsts, NEW log, NEW there2, NEW firsts2, NEW log2,
         RequestOK(m, there, firsts, log), there \subseteq there2, log \subseteq log2,
         \A u \in there : firsts2[u] = firsts[u]
  PROVE  RequestOK(m, there2, firsts2, log2)
<1>1. ASSUME m.row \in there, Logged(m.row, m.new, firsts, log) PROVE Logged(m.row, m.new, firsts2, log2)
  BY <1>1 DEF Logged
<1>2. ASSUME DOMAIN m.seen \subseteq there, Collected(m, firsts) PROVE Collected(m, firsts2)
  BY <1>2 DEF Collected
<1> QED
  BY <1>1, <1>2 DEF RequestOK

\* A request goes on while the others stay where they are.
LEMMA RequestsAfter ==
  ASSUME RequestsOK(req, used, first, audit), used \subseteq used', audit \subseteq audit',
         \A u \in used : first'[u] = first[u],
         NEW c \in Clients, NEW m, RequestOK(m, used', first', audit'), req' = [req EXCEPT ![c] = m]
  PROVE  RequestsOK(req, used, first, audit)'
<1>1. /\ req' = [d \in Clients |-> req'[d]] /\ req'[c] = m
      /\ \A d \in Clients \ {c} : req'[d] = req[d]
  BY DEF RequestsOK
<1>2. \A d \in Clients \ {c} : RequestOK(req'[d], used', first', audit')
  BY <1>1, RequestStays DEF RequestsOK
<1> QED
  BY <1>1, <1>2 DEF RequestsOK

LEMMA RequestsKept ==
  ASSUME RequestsOK(req, used, first, audit), used \subseteq used', audit \subseteq audit',
         \A u \in used : first'[u] = first[u], UNCHANGED req
  PROVE  RequestsOK(req, used, first, audit)'
<1>1. \A d \in Clients : RequestOK(req'[d], used', first', audit')
  BY RequestStays DEF RequestsOK
<1> QED
  BY <1>1 DEF RequestsOK

------------------------------------------------------------------------------
(* The steps of the requests *)

LEMMA RowHolds ==
  ASSUME NEW t \in Administered, NEW content, WellFormed(t, content), NEW f \in Settable[t]
  PROVE  Holds(t, f, content[f])
BY ColumnsAdministered, OneReferencePerField DEF WellFormed, Holds, ReferencesOf

LEMMA PostStep ==
  ASSUME RegistryInv, NEW c \in Clients, NEW t \in Administered, Post(c, t)
  PROVE  RegistryInv'
<1>1. PICK offer \in Offers(t) :
        LET r == CHOOSE x \in New(t) : TRUE
            new == WithHash(t, Over(offer[1], Blank(t))) IN
        /\ Fits(r, new)
        /\ db' = [db EXCEPT ![r] = new]
        /\ used' = used \cup {r}
        /\ first' = [first EXCEPT ![r] = new]
        /\ req' = [req EXCEPT ![c] = IF t = "user" THEN Saving("audit", r, new, offer[2]) ELSE Idle]
  BY DEF Post
<1> DEFINE r == CHOOSE x \in New(t) : TRUE
           new == WithHash(t, Over(offer[1], Blank(t)))
           m == IF t = "user" THEN Saving("audit", r, new, offer[2]) ELSE Idle
<1>2. /\ Fits(r, new)
      /\ db' = [db EXCEPT ![r] = new]
      /\ used' = used \cup {r}
      /\ first' = [first EXCEPT ![r] = new]
      /\ req' = [req EXCEPT ![c] = m]
      /\ UNCHANGED <<roles, audit>> /\ spent' = spent + 1
  BY <1>1 DEF Post, Starts
<1>3. t \in Tables /\ r \in Rows /\ Table[r] = t /\ r \notin used
  <2>1. r \in New(t)
    BY DEF Post
  <2> QED
    BY <2>1, ColumnsAdministered, RowsAreOf DEF New
<1>4. WellFormed(t, new)
  <2>1. PICK fields \in SUBSET Settable[t] : Required[t] \subseteq fields /\ offer[1] \in Given(t, fields)
    BY OffersAre
  <2>2. DOMAIN Blank(t) = Columns[t] /\ \A f \in Settable[t] : Blank(t)[f] = None
    BY ColumnsAdministered DEF Blank
  <2>3. \A f \in Settable[t] \ fields : Holds(t, f, Blank(t)[f])
    BY <2>1, <2>2, BlankHolds
  <2> QED
    BY <2>1, <2>2, <2>3, MadeOfGiven
<1>5. offer[2] \in RoleSets \cup {None}
  BY OffersAre
<1> HIDE DEF r, new
<1>6. DataInv'
  <2>1. spent' \in Nat /\ Table[r] # "attendance"
    BY <1>2, <1>3 DEF RegistryInv, DataInv, DataTyped, Administered
  <2> QED
    BY <1>2, <1>3, <1>4, <2>1, DataAfterWrite DEF RegistryInv
<1>7. RequestOK(m, used', first', audit')
  BY <1>2, <1>3, <1>4, <1>5 DEF RequestOK, Saving, Idle
<1> HIDE DEF m
<1>8. RequestsOK(req, used, first, audit)'
  <2>1. \A u \in used : first'[u] = first[u]
    BY <1>2, <1>3 DEF RegistryInv, DataInv, DataTyped
  <2> QED
    BY <1>2, <1>7, <2>1, RequestsAfter DEF RegistryInv
<1> QED
  BY <1>6, <1>8 DEF RegistryInv

LEMMA EditStep ==
  ASSUME RegistryInv, NEW c \in Clients, NEW t \in Administered, Edit(c, t)
  PROVE  RegistryInv'
<1>1. PICK r \in In(t), offer \in Changes(t) :
        req' = [req EXCEPT ![c] = Saving(IF t = "user" THEN "audit" ELSE "write", r,
                                         WithHash(t, Over(offer[1], db[r])), offer[2])]
  BY DEF Edit
<1> DEFINE new == WithHash(t, Over(offer[1], db[r]))
           m == Saving(IF t = "user" THEN "audit" ELSE "write", r, new, offer[2])
<1>2. t \in Tables /\ r \in Rows /\ Table[r] = t /\ Exists(r) /\ r \in used
  BY <1>1, ColumnsAdministered, InRows DEF RegistryInv, DataInv, DataTyped
<1>3. WellFormed(t, new)
  <2>1. PICK fields \in SUBSET Settable[t] : offer[1] \in Given(t, fields)
    BY ChangesAre
  <2>2. DOMAIN db[r] = Columns[t] /\ WellFormed(t, db[r])
    BY <1>2, RowFacts DEF RegistryInv, DataInv
  <2>3. \A f \in Settable[t] \ fields : Holds(t, f, db[r][f])
    BY <2>2, RowHolds
  <2> QED
    BY <2>1, <2>2, <2>3, MadeOfGiven
<1>4. offer[2] \in RoleSets \cup {None} /\ (offer[2] # None => t = "user")
  BY ChangesAre
<1> HIDE DEF new
<1>5. RequestOK(m, used, first, audit)
  BY <1>2, <1>3, <1>4 DEF RequestOK, Saving
<1>6. req' = [req EXCEPT ![c] = m] /\ UNCHANGED <<db, used, roles, audit, first>> /\ spent' = spent + 1
  BY <1>1 DEF Edit, Starts, new
<1> HIDE DEF m
<1>7. DataInv'
  BY <1>6, DataKept DEF RegistryInv, DataInv, DataTyped
<1>8. RequestsOK(req, used, first, audit)'
  BY <1>5, <1>6, RequestsAfter DEF RegistryInv
<1> QED
  BY <1>7, <1>8 DEF RegistryInv

\* A request ends, and nothing else happens.
LEMMA IdleOK == ASSUME NEW there, NEW firsts, NEW log PROVE RequestOK(Idle, there, firsts, log)
BY DEF RequestOK

LEMMA StepsOf ==
  ASSUME RequestsOK(req, used, first, audit), NEW c \in Clients
  PROVE  /\ req[c] = Idle => req[c].step = "idle"
         /\ req[c].step \in {"idle", "audit", "write", "roles", "set", "purge", "report"}
BY DEF RequestsOK, RequestOK, Idle

\* The request holds a row's new values.
LEMMA SavingOf ==
  ASSUME RequestsOK(req, used, first, audit), NEW c \in Clients, req[c].step \in {"audit", "write", "roles"}
  PROVE  LET m == req[c] IN
         /\ m = Saving(m.step, m.row, m.new, m.roles)
         /\ m.row \in used /\ Table[m.row] \in Administered /\ WellFormed(Table[m.row], m.new)
         /\ m.roles \in RoleSets \cup {None}
         /\ m.step \in {"audit", "roles"} \/ m.roles # None => Table[m.row] = "user"
         /\ m.step = "roles" => m.roles # None
         /\ m.step = "write" /\ Table[m.row] = "user" => Logged(m.row, m.new, first, audit)
<1>1. RequestOK(req[c], used, first, audit)
  BY DEF RequestsOK
<1> QED
  BY <1>1 DEF RequestOK, Idle

LEMMA AuditStep ==
  ASSUME RegistryInv, NEW c \in Clients, Audit(c)
  PROVE  RegistryInv'
<1> DEFINE r == req[c].row
           new == req[c].new
           rs == req[c].roles
           logs == {<<r, f, new[f]>> : f \in {g \in DOMAIN new : new[g] # db[r][g]}}
<1>1. /\ req[c].step = "audit" /\ req[c] = Saving("audit", r, new, rs)
      /\ r \in used /\ r \in Rows /\ Table[r] = "user" /\ WellFormed("user", new) /\ rs \in RoleSets \cup {None}
  BY SavingOf DEF Audit, RegistryInv, DataInv, DataTyped
<1>2. /\ UNCHANGED <<db, used, roles, first, spent>>
      /\ \/ Exists(r) /\ audit' = audit \cup logs /\ req' = [req EXCEPT ![c].step = "write"]
         \/ req' = [req EXCEPT ![c] = Idle] /\ audit' = audit
  BY DEF Audit, Done
<1> HIDE DEF r, new, rs
<1>3. CASE Exists(r) /\ audit' = audit \cup logs /\ req' = [req EXCEPT ![c].step = "write"]
  <2>1. req' = [req EXCEPT ![c] = Saving("write", r, new, rs)]
    <3>1. [req[c] EXCEPT !.step = "write"] = Saving("write", r, new, rs)
      BY <1>1 DEF Saving
    <3> QED
      BY <1>3, <3>1
  <2>2. DOMAIN new = Columns["user"] /\ DOMAIN db[r] = Columns["user"]
    BY <1>1, <1>3, RowFacts DEF WellFormed, RegistryInv, DataInv
  <2>3. LogTyped'
    <3>1. ASSUME NEW f \in Columns["user"]
          PROVE  /\ f \in Settable["user"] \cup {"hash", "DELETE"}
                 /\ new[f] \in Rows \cup Pinfls \cup {Hash(p) : p \in Pinfls} \cup {None}
      <4>1. "user" \in Administered /\ Columns["user"] = Settable["user"] \cup {"hash"}
        BY ColumnsAdministered DEF Administered
      <4>2. CASE f \in {"pinfl", "hash"}
        <5>1. new.pinfl \in Pinfls \cup {None} /\ new.hash = Hash(new.pinfl)
          BY <1>1 DEF WellFormed
        <5> QED
          BY <4>1, <4>2, <5>1, HashesAre
      <4>3. CASE f \notin {"pinfl", "hash"}
        <5>1. PICK x \in ReferencesOf["user"] : f = x.field /\ x.to \in Tables
          BY <4>3, ColumnKinds, TablesAre DEF ReferencesOf, Tables
        <5>2. new[f] \in RowsOf[x.to] \cup {None}
          BY <5>1, <1>1 DEF WellFormed
        <5> QED
          BY <4>1, <5>1, <5>2, RowsAreOf
      <4> QED
        BY <4>2, <4>3
    <3>2. ASSUME NEW x \in audit'
          PROVE /\ x[1] \in {u \in used : Table[u] = "user"}
                /\ x[2] \in Settable["user"] \cup {"hash", "DELETE"}
                /\ x[3] \in Rows \cup Pinfls \cup {Hash(p) : p \in Pinfls} \cup {None}
      <4>1. CASE x \in audit
        BY <4>1 DEF RegistryInv, DataInv, DataTyped, LogTyped
      <4>2. CASE x \in logs
        <5>1. PICK f \in Columns["user"] : x = <<r, f, new[f]>>
          BY <4>2, <2>2
        <5> QED
          BY <5>1, <3>1, <1>1
      <4> QED
        BY <4>1, <4>2, <1>3
    <3> QED
      BY <3>2, <1>2 DEF LogTyped
  <2>4. DataInv'
    BY <1>2, <1>3, <2>3, DataAfterLog DEF RegistryInv, DataInv, DataTyped
  <2>5. Logged(r, new, first, audit')
    <3>1. ASSUME NEW f \in DOMAIN new
          PROVE  new[f] \in {None, first[r][f]} \/ <<r, f, new[f]>> \in audit'
      <4>1. CASE new[f] # db[r][f]
        BY <1>3, <4>1
      <4>2. CASE new[f] = db[r][f]
        BY <4>2, <1>1, <1>3, <2>2 DEF RegistryInv, DataInv, AuditComplete
      <4> QED
        BY <4>1, <4>2
    <3> QED
      BY <3>1 DEF Logged
  <2>6. RequestOK(Saving("write", r, new, rs), used', first', audit')
    BY <2>5, <1>1, <1>2 DEF RequestOK, Saving, Administered
  <2>7. RequestsOK(req, used, first, audit)'
    BY <2>1, <2>6, <1>2, <1>3, RequestsAfter DEF RegistryInv
  <2> QED
    BY <2>4, <2>7 DEF RegistryInv
<1>4. CASE req' = [req EXCEPT ![c] = Idle] /\ audit' = audit
  <2>1. DataInv'
    BY <1>2, <1>4, DataKept DEF RegistryInv, DataInv, DataTyped
  <2>2. RequestsOK(req, used, first, audit)'
    BY <1>2, <1>4, IdleOK, RequestsAfter DEF RegistryInv
  <2> QED
    BY <2>1, <2>2 DEF RegistryInv
<1> QED
  BY <1>2, <1>3, <1>4

LEMMA WriteStep ==
  ASSUME RegistryInv, NEW c \in Clients, Write(c)
  PROVE  RegistryInv'
<1> DEFINE r == req[c].row
           new == req[c].new
           rs == req[c].roles
<1>1. /\ req[c].step = "write" /\ req[c] = Saving("write", r, new, rs)
      /\ r \in used /\ r \in Rows /\ Table[r] \in Administered /\ WellFormed(Table[r], new) /\ rs \in RoleSets \cup {None}
      /\ rs # None => Table[r] = "user"
      /\ Table[r] = "user" => Logged(r, new, first, audit)
  BY SavingOf DEF Write, RegistryInv, DataInv, DataTyped
<1>2. /\ UNCHANGED <<used, roles, audit, first, spent>>
      /\ \/ Fits(r, new) /\ db' = [db EXCEPT ![r] = new]
         \/ db' = db
      /\ \/ req' = [req EXCEPT ![c] = Idle]
         \/ rs # None /\ req' = [req EXCEPT ![c].step = "roles"]
  BY DEF Write, Done
<1> HIDE DEF r, new, rs
<1>3. DataInv'
  <2>1. spent' \in Nat /\ Table[r] # "attendance" /\ Table[r] # "exit" /\ roles' \in [RowsOf["user"] -> SUBSET Roles]
    BY <1>1, <1>2 DEF RegistryInv, DataInv, DataTyped, Administered
  <2>2. CASE db' = db
    BY <2>1, <2>2, <1>2, DataKept DEF RegistryInv
  <2>3. CASE Fits(r, new) /\ db' = [db EXCEPT ![r] = new]
    BY <2>1, <2>3, <1>1, <1>2, DataAfterWrite DEF RegistryInv
  <2> QED
    BY <2>2, <2>3, <1>2
<1>4. CASE req' = [req EXCEPT ![c] = Idle]
  <2>1. RequestsOK(req, used, first, audit)'
    BY <1>2, <1>4, IdleOK, RequestsAfter DEF RegistryInv
  <2> QED
    BY <2>1, <1>3 DEF RegistryInv
<1>5. CASE rs # None /\ req' = [req EXCEPT ![c].step = "roles"]
  <2>1. [req[c] EXCEPT !.step = "roles"] = Saving("roles", r, new, rs)
    BY <1>1 DEF Saving
  <2>2. req' = [req EXCEPT ![c] = Saving("roles", r, new, rs)]
    BY <2>1, <1>5
  <2>3. RequestOK(Saving("roles", r, new, rs), used', first', audit')
    BY <1>1, <1>2, <1>5 DEF RequestOK, Saving
  <2>4. RequestsOK(req, used, first, audit)'
    BY <2>2, <2>3, <1>2, RequestsAfter DEF RegistryInv
  <2> QED
    BY <2>4, <1>3 DEF RegistryInv
<1> QED
  BY <1>2, <1>4, <1>5

LEMMA RolesStep ==
  ASSUME RegistryInv, NEW c \in Clients, ReadRoles(c) \/ SetRoles(c) \/ Dies(c)
  PROVE  RegistryInv'
<1>1. CASE ReadRoles(c)
  <2> DEFINE m == [step |-> "set", row |-> req[c].row, roles |-> req[c].roles, old |-> roles[req[c].row]]
  <2>1. req' = [req EXCEPT ![c] = m] /\ UNCHANGED <<db, used, roles, audit, first, spent>>
    BY <1>1 DEF ReadRoles
  <2>2. /\ req[c].row \in used /\ Table[req[c].row] = "user" /\ req[c].roles \in RoleSets \cup {None}
        /\ req[c].roles # None
    BY <1>1, SavingOf DEF ReadRoles, RegistryInv
  <2>3. roles[req[c].row] \in SUBSET Roles
    BY <2>2, TablesAre DEF RegistryInv, DataInv, DataTyped, RowsOf
  <2>4. RequestOK(m, used', first', audit')
    BY <2>1, <2>2, <2>3, RolesAssumption DEF RequestOK
  <2> HIDE DEF m
  <2>5. RequestsOK(req, used, first, audit)'
    BY <2>1, <2>4, RequestsAfter DEF RegistryInv
  <2>6. DataInv'
    BY <2>1, DataKept DEF RegistryInv, DataInv, DataTyped
  <2> QED
    BY <2>5, <2>6 DEF RegistryInv
<1>2. CASE SetRoles(c)
  <2> DEFINE r == req[c].row
  <2>1. /\ UNCHANGED <<db, used, audit, first, spent>> /\ req' = [req EXCEPT ![c] = Idle]
        /\ \/ roles' = roles
           \/ roles' = [roles EXCEPT ![r] = (@ \ (req[c].old \ req[c].roles)) \cup (req[c].roles \ req[c].old)]
    BY <1>2 DEF SetRoles, Done
  <2>2. RequestOK(req[c], used, first, audit) /\ req[c].step = "set"
    BY <1>2 DEF SetRoles, RegistryInv, RequestsOK
  <2>3. r \in used /\ Table[r] = "user" /\ req[c].roles \in SUBSET Roles
    BY <2>2 DEF RequestOK, Idle
  <2>4. roles' \in [RowsOf["user"] -> SUBSET Roles]
    BY <2>1, <2>3, TablesAre DEF RegistryInv, DataInv, DataTyped, RowsOf
  <2>5. DataInv'
    BY <2>1, <2>4, DataKept DEF RegistryInv, DataInv, DataTyped
  <2>6. RequestsOK(req, used, first, audit)'
    BY <2>1, IdleOK, RequestsAfter DEF RegistryInv
  <2> QED
    BY <2>5, <2>6 DEF RegistryInv
<1>3. CASE Dies(c)
  <2>1. req' = [req EXCEPT ![c] = Idle] /\ UNCHANGED <<db, used, roles, audit, first, spent>>
    BY <1>3 DEF Dies, Done
  <2>2. DataInv'
    BY <2>1, DataKept DEF RegistryInv, DataInv, DataTyped
  <2>3. RequestsOK(req, used, first, audit)'
    BY <2>1, IdleOK, RequestsAfter DEF RegistryInv
  <2> QED
    BY <2>2, <2>3 DEF RegistryInv
<1> QED
  BY <1>1, <1>2, <1>3

\* What a CASCADE takes belongs to what takes it.
LEMMA OwnersAre ==
  \A x \in References : x.onDelete = "CASCADE" => x.to \in Owners(x.of)
BY DEF References, DirectoryReferences, FleetReferences, UserReferences, DutyReferences, EventReferences,
       OfficerReferences, ExitReferences, AttendanceReferences, Refers, Owners

OwnedIn(r, gone) ==
  /\ r \in gone /\ gone \subseteq {x \in Rows : Exists(x)}
  /\ \A x \in gone : \/ x = r
                     \/ \E y \in ReferencesOf[Table[x]] :
                          /\ y.onDelete = "CASCADE" /\ y.field \in DOMAIN db[x]
                          /\ db[x][y.field] \in gone /\ Table[db[x][y.field]] = y.to

LEMMA TakenOwned ==
  ASSUME RowsFit(db), NEW r, NEW gone, OwnedIn(r, gone)
  PROVE  OwnedIn(r, Taken(gone))
<1>1. ASSUME NEW x \in Rows, RefersTo(x, gone, "CASCADE") # {}
      PROVE  Exists(x) /\ \E y \in ReferencesOf[Table[x]] :
                            /\ y.onDelete = "CASCADE" /\ y.field \in DOMAIN db[x]
                            /\ db[x][y.field] \in gone /\ Table[db[x][y.field]] = y.to
  <2>1. PICK y \in ReferencesOf[Table[x]] : y.onDelete = "CASCADE" /\ Exists(x) /\ db[x][y.field] \in gone
    BY <1>1 DEF RefersTo
  <2>2. y \in References /\ y.of = Table[x] /\ y.field \in Columns[Table[x]] /\ y.to \in Tables
    BY TableOf DEF ReferencesOf, Columns, Tables
  <2>3. db[x][y.field] \in In(y.to) /\ DOMAIN db[x] = Columns[Table[x]]
    BY <2>1, <2>2, RowFacts
  <2>4. Table[db[x][y.field]] = y.to
    BY <2>2, <2>3, InRows
  <2> QED
    BY <2>1, <2>2, <2>3, <2>4
<1>2. \A x \in Taken(gone) : x \in gone \/ (x \in Rows /\ RefersTo(x, gone, "CASCADE") # {})
  BY DEF Taken
<1>3. gone \subseteq Taken(gone)
  BY DEF Taken
<1> QED
  BY <1>1, <1>2, <1>3 DEF OwnedIn

LEMMA CascadeOwned ==
  ASSUME RowsFit(db), NEW r \in Rows, Exists(r)
  PROVE  OwnedIn(r, Cascade(r))
<1>1. OwnedIn(r, {r})
  BY DEF OwnedIn
<1>2. OwnedIn(r, Taken({r}))
  BY <1>1, TakenOwned
<1>3. OwnedIn(r, Taken(Taken({r})))
  BY <1>2, TakenOwned
<1>4. OwnedIn(r, Taken(Taken(Taken({r}))))
  BY <1>3, TakenOwned
<1>5. OwnedIn(r, Taken(Taken(Taken(Taken({r})))))
  BY <1>4, TakenOwned
<1> QED
  BY <1>5 DEF Cascade

LEMMA DeleteStep ==
  ASSUME RegistryInv, NEW c \in Clients, NEW t \in Administered, Delete(c, t)
  PROVE  RegistryInv'
<1>1. PICK r \in In(t) :
        req' = [req EXCEPT ![c] = [step |-> "purge", row |-> r, seen |-> [x \in Cascade(r) |-> db[x]]]]
  BY DEF Delete
<1> DEFINE m == [step |-> "purge", row |-> r, seen |-> [x \in Cascade(r) |-> db[x]]]
<1>2. r \in Rows /\ Exists(r)
  BY ColumnsAdministered, InRows
<1>3. OwnedIn(r, Cascade(r))
  BY <1>2, CascadeOwned DEF RegistryInv, DataInv
<1>4. Cascade(r) \subseteq used
  BY <1>3 DEF OwnedIn, RegistryInv, DataInv, DataTyped
<1>5. Collected(m, first)
  <2>1. r \in Cascade(r) /\ Table[r] = t
    BY <1>3, ColumnsAdministered, InRows DEF OwnedIn
  <2>2. ASSUME NEW x \in Cascade(r), Table[x] = "exit"
        PROVE  db[x].employee = first[x].employee
    <3>1. x \in In("exit")
      BY <2>2, <1>3, InRows, TablesAre DEF OwnedIn
    <3> QED
      BY <3>1 DEF RegistryInv, DataInv, ExitsKept
  <2> QED
    BY <1>3, <2>1, <2>2 DEF Collected, OwnedIn
<1>6. RequestOK(m, used, first, audit)
  BY <1>4, <1>5 DEF RequestOK
<1>7. req' = [req EXCEPT ![c] = m] /\ UNCHANGED <<db, used, roles, audit, first>> /\ spent' = spent + 1
  BY <1>1 DEF Delete, Starts
<1> HIDE DEF m
<1>8. DataInv'
  BY <1>7, DataKept DEF RegistryInv, DataInv, DataTyped
<1>9. RequestsOK(req, used, first, audit)'
  BY <1>6, <1>7, RequestsAfter DEF RegistryInv
<1> QED
  BY <1>8, <1>9 DEF RegistryInv

LEMMA PurgeStep ==
  ASSUME RegistryInv, NEW c \in Clients, Purge(c)
  PROVE  RegistryInv'
<1> DEFINE gone == DOMAIN req[c].seen
<1>1. RequestOK(req[c], used, first, audit) /\ req[c].step = "purge"
  BY DEF Purge, RegistryInv, RequestsOK
<1>2. gone \in SUBSET used
  BY <1>1 DEF RequestOK, Idle
<1>3. /\ UNCHANGED <<used, first, spent>> /\ req' = [req EXCEPT ![c] = Idle]
      /\ \/ UNCHANGED <<db, roles, audit>>
         \/ /\ \A x \in Rows \ gone : RefersTo(x, gone, "CASCADE") = {}
            /\ db' = Without(gone)
            /\ roles' = [x \in DOMAIN roles |-> IF x \in gone THEN {} ELSE roles[x]]
            /\ audit' = audit \cup {<<x, "DELETE", None>> : x \in {y \in gone : Table[y] = "user"}}
  BY DEF Purge, Done
<1> HIDE DEF gone
<1>4. spent' \in Nat /\ roles' \in [RowsOf["user"] -> SUBSET Roles]
  BY <1>3 DEF RegistryInv, DataInv, DataTyped
<1>5. DataInv'
  BY <1>2, <1>3, <1>4, DataKept, DataAfterDeletion DEF RegistryInv
<1>6. RequestsOK(req, used, first, audit)'
  BY <1>3, IdleOK, RequestsAfter DEF RegistryInv
<1> QED
  BY <1>5, <1>6 DEF RegistryInv

LEMMA ReportStep ==
  ASSUME RegistryInv, NEW c \in Clients, Report(c)
  PROVE  RegistryInv'
<1>1. PICK u \in In("user"), k \in In("task") :
        db[u].hash # None /\ req' = [req EXCEPT ![c] = [step |-> "report", row |-> k, hash |-> db[u].hash]]
  BY DEF Report
<1> DEFINE m == [step |-> "report", row |-> k, hash |-> db[u].hash]
<1>2. u \in Rows /\ Table[u] = "user" /\ Exists(u) /\ k \in Rows /\ Table[k] = "task" /\ Exists(k)
  BY InRows, TablesAre
<1>3. db[u].hash \in Hashes
  <2>1. db[u].pinfl \in Pinfls \cup {None} /\ db[u].hash = Hash(db[u].pinfl)
    BY <1>2, RowFacts DEF WellFormed, RegistryInv, DataInv
  <2> QED
    BY <2>1, <1>1, HashesAre
<1>4. RequestOK(m, used, first, audit)
  BY <1>2, <1>3 DEF RequestOK, RegistryInv, DataInv, DataTyped
<1>5. req' = [req EXCEPT ![c] = m] /\ UNCHANGED <<db, used, roles, audit, first>> /\ spent' = spent + 1
  BY <1>1 DEF Report, Starts
<1> HIDE DEF m
<1>6. DataInv'
  BY <1>5, DataKept DEF RegistryInv, DataInv, DataTyped
<1>7. RequestsOK(req, used, first, audit)'
  BY <1>4, <1>5, RequestsAfter DEF RegistryInv
<1> QED
  BY <1>6, <1>7 DEF RegistryInv

LEMMA RecordAttendanceStep ==
  ASSUME RegistryInv, NEW c \in Clients, RecordAttendance(c)
  PROVE  RegistryInv'
<1> DEFINE m == req[c]
           x == CHOOSE y \in New("attendance") : TRUE
<1>1. /\ req' = [req EXCEPT ![c] = Idle] /\ UNCHANGED <<roles, audit, spent>>
      /\ \/ UNCHANGED <<db, used, first>>
         \/ /\ Exists(m.row) /\ New("attendance") # {}
            /\ \E u \in {v \in In("user") : db[v].hash = m.hash} :
                 /\ db' = [db EXCEPT ![x] = [task |-> m.row, employee |-> u, hash |-> m.hash]]
                 /\ used' = used \cup {x} /\ first' = [first EXCEPT ![x] = db'[x]]
  BY DEF RecordAttendance, Done
<1>2. m.step = "report" /\ m.row \in used /\ Table[m.row] = "task" /\ m.hash \in Hashes
  BY DEF RecordAttendance, RegistryInv, RequestsOK, RequestOK, Idle
<1> HIDE DEF m
<1>3. CASE UNCHANGED <<db, used, first>>
  <2>1. DataInv'
    BY <1>1, <1>3, DataKept DEF RegistryInv, DataInv, DataTyped
  <2>2. RequestsOK(req, used, first, audit)'
    BY <1>1, <1>3, IdleOK, RequestsAfter DEF RegistryInv
  <2> QED
    BY <2>1, <2>2 DEF RegistryInv
<1>4. CASE /\ Exists(m.row) /\ New("attendance") # {}
           /\ \E u \in {v \in In("user") : db[v].hash = m.hash} :
                 /\ db' = [db EXCEPT ![x] = [task |-> m.row, employee |-> u, hash |-> m.hash]]
                 /\ used' = used \cup {x} /\ first' = [first EXCEPT ![x] = db'[x]]
  <2>1. PICK u \in In("user") :
          /\ db[u].hash = m.hash
          /\ db' = [db EXCEPT ![x] = [task |-> m.row, employee |-> u, hash |-> m.hash]]
          /\ used' = used \cup {x} /\ first' = [first EXCEPT ![x] = db'[x]]
    BY <1>4
  <2> DEFINE new == [task |-> m.row, employee |-> u, hash |-> m.hash]
  <2>2. x \in New("attendance")
    BY <1>4
  <2>3. x \in Rows /\ Table[x] = "attendance" /\ x \notin used /\ x \in DOMAIN db
    BY <2>2, TablesAre, RowsAreOf DEF New, RegistryInv, DataInv, RowsFit
  <2> HIDE DEF x
  <2>4. db' = [db EXCEPT ![x] = new] /\ first' = [first EXCEPT ![x] = new]
    BY <2>1, <2>3
  <2>5. /\ u \in Rows /\ Table[u] = "user" /\ Exists(u) /\ u \in RowsOf["user"] /\ m.row \in RowsOf["task"]
        /\ m.row \in Rows /\ m.row # None /\ u # None
    BY <1>2, InRows, TableOf, TablesAre, RowsAssumption DEF In, RegistryInv, DataInv, DataTyped
  <2>6. WellFormed("attendance", new)
    <3>1. DOMAIN new = Columns["attendance"] /\ new = [f \in Columns["attendance"] |-> new[f]]
      BY ColumnsWritten
    <3>2. \A y \in ReferencesOf["attendance"] : new[y.field] \in RowsOf[y.to]
      BY <2>5, ReferencesWritten DEF Refers
    <3> QED
      BY <3>1, <3>2, <1>2 DEF WellFormed
  <2>7. Fits(x, new)
    <3>1. \A y \in ReferencesOf["attendance"] : new[y.field] \in RowsOf[y.to] /\ Exists(new[y.field])
      BY <2>5, <1>4, ReferencesWritten DEF Refers
    <3> QED
      BY <3>1, <2>3 DEF Fits, FitsIn, Exists
  <2>8. OwnerKnown(new)
    BY <2>1 DEF OwnerKnown
  <2> HIDE DEF new
  <2>9. DataInv'
    <3>1. spent' \in Nat
      BY <1>1 DEF RegistryInv, DataInv, DataTyped
    <3> QED
      BY <3>1, <1>1, <2>1, <2>3, <2>4, <2>6, <2>7, <2>8, DataAfterWrite DEF RegistryInv
  <2>10. RequestsOK(req, used, first, audit)'
    <3>1. \A v \in used : first'[v] = first[v]
      BY <2>3, <2>4 DEF RegistryInv, DataInv, DataTyped
    <3>2. used \subseteq used' /\ audit \subseteq audit' /\ req' = [req EXCEPT ![c] = Idle]
      BY <1>1, <2>1
    <3>3. RequestOK(Idle, used', first', audit')
      BY IdleOK
    <3>4. RequestsOK(req, used, first, audit)
      BY DEF RegistryInv
    <3> QED
      BY <3>1, <3>2, <3>3, <3>4, RequestsAfter
  <2> QED
    BY <2>9, <2>10 DEF RegistryInv
<1> QED
  BY <1>1, <1>3, <1>4

\* Every step of the requests keeps the data and the requests in order.
LEMMA RequestSteps ==
  ASSUME RegistryInv, NEW c \in Clients,
         \/ Regions(c) \/ Districts(c) \/ Mahallas(c) \/ Organizations(c) \/ Departments(c)
         \/ Positions(c) \/ SpecialRanks(c) \/ TransportTypes(c) \/ Transports(c) \/ Users(c)
         \/ DailyOfficers(c)
         \/ Report(c) \/ RecordAttendance(c)
         \/ Audit(c) \/ Write(c) \/ ReadRoles(c) \/ SetRoles(c) \/ Purge(c) \/ Dies(c)
  PROVE  RegistryInv'
<1>1. ASSUME NEW t \in Administered, Requests(c, t) PROVE RegistryInv'
  BY <1>1, PostStep, EditStep, DeleteStep DEF Requests
<1>2. CASE \/ Regions(c) \/ Districts(c) \/ Mahallas(c) \/ Organizations(c) \/ Departments(c)
           \/ Positions(c) \/ SpecialRanks(c) \/ TransportTypes(c) \/ Transports(c) \/ Users(c)
           \/ DailyOfficers(c)
  <2>1. \E t \in Administered : Requests(c, t)
    BY <1>2 DEF Regions, Districts, Mahallas, Organizations, Departments, Positions, SpecialRanks, TransportTypes,
                Transports, Users, DailyOfficers, Administered
  <2> QED
    BY <1>1, <2>1
<1> QED
  BY <1>2, ReportStep, RecordAttendanceStep, AuditStep, WriteStep, RolesStep, PurgeStep

LEMMA RecordExitStep ==
  ASSUME RegistryInv, NEW u \in In("user"), RecordExit(u)
  PROVE  RegistryInv'
<1>1. PICK x \in RowsOf["exit"] \ used, a \in In("assignment") \cup {None}, date \in Dates :
        /\ db' = [db EXCEPT ![x] = [employee |-> u, assignment |-> a, date |-> date, returned |-> FALSE]]
        /\ used' = used \cup {x} /\ first' = [first EXCEPT ![x] = db'[x]]
  BY DEF RecordExit
<1> DEFINE new == [employee |-> u, assignment |-> a, date |-> date, returned |-> FALSE]
<1>2. x \in Rows /\ Table[x] = "exit" /\ x \notin used /\ x \in DOMAIN db
  BY TablesAre, RowsAreOf DEF RegistryInv, DataInv, RowsFit
<1>3. db' = [db EXCEPT ![x] = new] /\ first' = [first EXCEPT ![x] = new]
  BY <1>1, <1>2
<1>4. UNCHANGED <<roles, audit, req>> /\ spent' \in Nat
  BY DEF RecordExit, RegistryInv, DataInv, DataTyped
<1>5. /\ u \in RowsOf["user"] /\ Exists(u) /\ u # None
      /\ a # None => a \in RowsOf["assignment"] /\ Exists(a)
  BY RowsAreOf, TablesAre, RowsAssumption DEF In
<1>6. \A y \in ReferencesOf["exit"] : \/ new[y.field] \in RowsOf[y.to] /\ Exists(new[y.field])
                                      \/ new[y.field] = None /\ y.onDelete = "SET_NULL"
  BY <1>5, ReferencesWritten DEF ExitReferences, Refers
<1>7. WellFormed("exit", new)
  <2>1. DOMAIN new = Columns["exit"] /\ new = [f \in Columns["exit"] |-> new[f]]
    BY ColumnsWritten
  <2> QED
    BY <2>1, <1>6, RowsAssumption DEF WellFormed
<1>8. Fits(x, new)
  BY <1>2, <1>6 DEF Fits, FitsIn, Exists
<1> HIDE DEF new
<1>9. DataInv'
  BY <1>1, <1>2, <1>3, <1>4, <1>7, <1>8, DataAfterWrite DEF RegistryInv
<1>10. RequestsOK(req, used, first, audit)'
  <2>1. \A v \in used : first'[v] = first[v]
    BY <1>2, <1>3 DEF RegistryInv, DataInv, DataTyped
  <2> QED
    BY <2>1, <1>1, <1>4, RequestsKept DEF RegistryInv
<1> QED
  BY <1>9, <1>10 DEF RegistryInv

LEMMA RecordReturnStep ==
  ASSUME RegistryInv, NEW x \in In("exit"), RecordReturn(x)
  PROVE  RegistryInv'
<1> DEFINE new == [db[x] EXCEPT !.returned = TRUE]
<1>1. x \in Rows /\ Table[x] = "exit" /\ Exists(x) /\ x \in used
  BY InRows, TablesAre DEF RegistryInv, DataInv, DataTyped
<1>2. db' = [db EXCEPT ![x] = new] /\ UNCHANGED <<used, roles, audit, first, req>> /\ spent' \in Nat
  BY DEF RecordReturn, RegistryInv, DataInv, DataTyped
<1>3. WellFormed("exit", db[x]) /\ FitsIn(db, x, db[x]) /\ DOMAIN db[x] = Columns["exit"]
  BY <1>1, RowFacts DEF RegistryInv, DataInv, RowsFit, Exists
<1>4. /\ DOMAIN new = Columns["exit"] /\ new.returned = TRUE
      /\ \A f \in Columns["exit"] : f # "returned" => new[f] = db[x][f]
      /\ new = [f \in Columns["exit"] |-> new[f]]
  BY <1>3, ColumnsWritten
<1>5. \A y \in ReferencesOf["exit"] : new[y.field] = db[x][y.field]
  BY <1>3, <1>4, TablesAre, OtherColumns DEF ReferencesOf, Columns
<1> HIDE DEF new
<1>6. WellFormed("exit", new)
  BY <1>3, <1>4, <1>5, ColumnsWritten DEF WellFormed
<1>7. Fits(x, new)
  BY <1>1, <1>3, <1>5 DEF Fits, FitsIn
<1>8. DataInv'
  <2>1. new.employee = db[x].employee /\ new.date = db[x].date
    BY <1>4, ColumnsWritten
  <2> QED
    BY <2>1, <1>1, <1>2, <1>6, <1>7, DataAfterWrite DEF RegistryInv
<1>9. RequestsOK(req, used, first, audit)'
  <2>1. /\ used \subseteq used' /\ audit \subseteq audit' /\ \A u \in used : first'[u] = first[u]
        /\ UNCHANGED req
    BY <1>2
  <2>2. RequestsOK(req, used, first, audit)
    BY DEF RegistryInv
  <2> QED
    BY <2>1, <2>2, RequestsKept
<1> QED
  BY <1>8, <1>9 DEF RegistryInv

------------------------------------------------------------------------------
(* The steps of the commands *)

Plans == {Levels} \cup {<<t>> : t \in LoadedTables}

\* What a command still has to do of its plan.
Remainders(plan) ==
  IF plan = Levels THEN {Levels, <<"district", "mahalla">>, <<"mahalla">>, << >>} ELSE {plan, << >>}

\* Some of the features of a file, in its order and up to its end, are left: all but the first k.
LeftOf(file, features, k) ==
  /\ k \in 0 .. Len(file) /\ Len(features) = Len(file) - k
  /\ \A i \in 1 .. Len(features) : features[i] = file[i + k]

LoadFields(j) ==
  /\ j.plan \in Plans /\ j.todo \in Remainders(j.plan)
  /\ j.alone \in BOOLEAN /\ j.since \in Nat

ImportFields(j) ==
  /\ j = [step |-> j.step, org |-> j.org, department |-> j.department, position |-> j.position,
          special_rank |-> j.special_rank, present |-> j.present, update |-> j.update,
          alone |-> j.alone, since |-> j.since]
  /\ j.org \in RowsOf["organization"] /\ j.department \in RowsOf["department"] \cup {None}
  /\ j.position \in RowsOf["position"] \cup {None} /\ j.special_rank \in RowsOf["special_rank"] \cup {None}
  /\ j.present \subseteq Listed /\ j.update \in BOOLEAN
  /\ j.alone \in BOOLEAN /\ j.since \in Nat

\* A command is at a statement of it.
JobOK(j) ==
  \/ j = NoJob
  \/ /\ j.step \in {"clear", "parents", "loaded"} /\ LoadFields(j)
     /\ j = [step |-> j.step, todo |-> j.todo, plan |-> j.plan, alone |-> j.alone, since |-> j.since]
     /\ j.step = "loaded" <=> j.todo = << >>
  \/ /\ j.step = "create" /\ LoadFields(j) /\ j.todo # << >>
     /\ j = [step |-> "create", todo |-> j.todo, plan |-> j.plan, alone |-> j.alone, since |-> j.since,
             features |-> j.features, known |-> j.known]
     /\ j.features \in Seq(Features(Head(j.todo)))
     /\ \E k \in Nat : LeftOf(GeoFile[Head(j.todo)], j.features, k)
     /\ j.known \subseteq Rows
  \/ j.step \in {"sheet", "imported"} /\ ImportFields(j)

\* One that no request was beside when it started, and none has begun beside, is alone.
JobAlone ==
  job.step # "none" => job.since <= spent /\ (job.alone /\ spent = job.since => Alone)

LEMMA RemaindersAre ==
  ASSUME NEW plan \in Plans, NEW todo \in Remainders(plan)
  PROVE  /\ todo \in Seq(LoadedTables)
         /\ todo # << >> => /\ Head(todo) \in LoadedTables /\ Tail(todo) \in Remainders(plan)
                            /\ Len(todo) = 1 <=> Tail(todo) = << >>
<1>1. \/ todo = << >> \/ todo = <<"region", "district", "mahalla">> \/ todo = <<"district", "mahalla">>
      \/ \E t \in LoadedTables : todo = <<t>>
  BY DEF Plans, Remainders, Levels, LoadedTables
<1>2. plan = Levels => Tail(Levels) = <<"district", "mahalla">> /\ Tail(<<"district", "mahalla">>) = <<"mahalla">>
  BY DEF Levels
<1>3. CASE todo = << >>
  BY <1>3
<1>4. CASE todo = <<"region", "district", "mahalla">>
  <2>1. plan = Levels /\ Tail(todo) = <<"district", "mahalla">>
    BY <1>4 DEF Plans, Remainders, Levels
  <2> QED
    BY <2>1, <1>4 DEF Remainders, LoadedTables
<1>5. CASE todo = <<"district", "mahalla">>
  <2>1. plan = Levels /\ Tail(todo) = <<"mahalla">>
    BY <1>5 DEF Plans, Remainders, Levels
  <2> QED
    BY <2>1, <1>5 DEF Remainders, LoadedTables
<1>6. CASE \E t \in LoadedTables : todo = <<t>>
  <2>1. PICK t \in LoadedTables : todo = <<t>>
    BY <1>6
  <2>2. << >> \in Remainders(plan)
    BY DEF Remainders
  <2>3. todo \in Seq(LoadedTables) /\ Head(todo) = t /\ Tail(todo) = << >> /\ Len(todo) = 1
    BY <2>1
  <2> QED
    BY <2>2, <2>3
<1> QED
  BY <1>1, <1>3, <1>4, <1>5, <1>6

LEMMA Loaded == LoadedTables \subseteq Tables /\ LoadedTables \subseteq Administered /\ "user" \notin LoadedTables
BY TablesAre DEF LoadedTables, Administered

LEMMA ClearStep ==
  ASSUME RegistryInv, JobOK(job), ClearTable
  PROVE  RegistryInv' /\ JobOK(job')
<1>1. /\ job.plan \in Plans /\ job.todo \in Remainders(job.plan) /\ job.todo # << >>
      /\ job = [step |-> "clear", todo |-> job.todo, plan |-> job.plan, alone |-> job.alone, since |-> job.since]
      /\ LoadFields(job)
  BY DEF ClearTable, JobOK, LoadFields, NoJob
<1> DEFINE t == Head(job.todo)
<1>2. t \in LoadedTables
  BY <1>1, RemaindersAre
<1> HIDE DEF t
<1>3. In(t) \subseteq used /\ In(t) \subseteq Rows /\ \A r \in In(t) : Table[r] = t
  BY <1>2, Loaded, InRows DEF RegistryInv, DataInv, DataTyped
<1>4. \A x \in Rows \ In(t) : RefersTo(x, In(t), "CASCADE") = {}
  <2> SUFFICES ASSUME NEW x \in Rows, NEW y \in RefersTo(x, In(t), "CASCADE") PROVE FALSE
    OBVIOUS
  <2>1. y \in References /\ y.of = Table[x] /\ y.onDelete = "CASCADE" /\ Exists(x) /\ db[x][y.field] \in In(t)
    BY TableOf DEF RefersTo, ReferencesOf
  <2>2. db[x][y.field] \in In(y.to) /\ y.to \in Tables
    BY <2>1, RowFacts DEF RegistryInv, DataInv, Tables
  <2>3. y.to = t
    BY <2>1, <2>2, <1>3, InRows
  <2> QED
    BY <2>1, <2>3, <1>2, ReferenceKinds
<1>5. db' = Without(In(t)) /\ UNCHANGED <<used, roles, audit, first, req, spent>>
  BY DEF ClearTable, t
<1>6. DataInv'
  <2>1. {y \in In(t) : Table[y] = "user"} = {}
    BY <1>2, <1>3, Loaded
  <2>2. audit' = audit \cup {<<x, "DELETE", None>> : x \in {y \in In(t) : Table[y] = "user"}}
    BY <2>1, <1>5
  <2>3. spent' \in Nat /\ roles' \in [RowsOf["user"] -> SUBSET Roles]
    BY <1>5 DEF RegistryInv, DataInv, DataTyped
  <2> QED
    BY <2>2, <2>3, <1>3, <1>4, <1>5, DataAfterDeletion DEF RegistryInv
<1>7. RequestsOK(req, used, first, audit)'
  BY <1>5, RequestsKept DEF RegistryInv
<1>8. JobOK(job')
  <2>1. job' = [step |-> "parents", todo |-> job.todo, plan |-> job.plan, alone |-> job.alone, since |-> job.since]
    <3>1. [job EXCEPT !.step = "parents"]
            = [step |-> "parents", todo |-> job.todo, plan |-> job.plan, alone |-> job.alone, since |-> job.since]
      BY <1>1
    <3> QED
      BY <3>1 DEF ClearTable
  <2> QED
    BY <2>1, <1>1 DEF JobOK, LoadFields
<1> QED
  BY <1>6, <1>7, <1>8 DEF RegistryInv

\* A row that a load inserts.
LEMMA ContentFits ==
  ASSUME NEW t \in LoadedTables, NEW feature, NEW region \in RowsOf["region"] \cup {None},
         NEW district \in RowsOf["district"] \cup {None}
  PROVE  WellFormed(t, Content(t, feature, region, district))
<1> DEFINE new == Content(t, feature, region, district)
<1>1. CASE t = "region"
  <2>1. new = [f \in {} |-> None]
    BY <1>1, ReferencesWritten, TablesAre DEF Content, Blank, Settable
  <2> QED
    BY <2>1, <1>1, ReferencesWritten, ColumnsWritten DEF WellFormed
<1>2. CASE t = "district"
  <2>1. new = [region |-> region]
    BY <1>2 DEF Content
  <2>2. DOMAIN new = Columns[t] /\ new = [f \in Columns[t] |-> new[f]]
    BY <2>1, <1>2, ColumnsWritten
  <2>3. \A x \in ReferencesOf[t] : new[x.field] \in RowsOf[x.to] \/ (new[x.field] = None /\ x.onDelete = "SET_NULL")
    BY <2>1, <1>2, ReferencesWritten DEF Refers
  <2> HIDE DEF new
  <2>4. WellFormed(t, new)
    BY <2>2, <2>3, <1>2 DEF WellFormed
  <2> QED
    BY <2>4 DEF new
<1>3. CASE t = "mahalla"
  <2>1. new = [region |-> region, district |-> district]
    BY <1>3 DEF Content
  <2>2. DOMAIN new = Columns[t] /\ new = [f \in Columns[t] |-> new[f]]
    BY <2>1, <1>3, ColumnsWritten
  <2>3. \A x \in ReferencesOf[t] : new[x.field] \in RowsOf[x.to] \/ (new[x.field] = None /\ x.onDelete = "SET_NULL")
    BY <2>1, <1>3, ReferencesWritten DEF Refers
  <2> HIDE DEF new
  <2>4. WellFormed(t, new)
    BY <2>2, <2>3, <1>3 DEF WellFormed
  <2> QED
    BY <2>4 DEF new
<1> QED
  BY <1>1, <1>2, <1>3 DEF LoadedTables

\* What CreateRow does, with the row found of the region and the district.
Creates(region, district) ==
  LET t == Head(job.todo)
      f == Head(job.features)
      new == Content(t, f, region, district)
      r == CHOOSE x \in New(t) : TRUE
  IN  \/ /\ (t = "district" /\ region = None) \/ (t = "mahalla" /\ district = None)
         /\ job' = [job EXCEPT !.features = Tail(@)] /\ UNCHANGED <<db, used, first, code>>
      \/ /\ ~((t = "district" /\ region = None) \/ (t = "mahalla" /\ district = None))
         /\ Fits(CHOOSE x \in RowsOf[t] : TRUE, new) /\ New(t) # {}
         /\ db' = [db EXCEPT ![r] = new] /\ first' = [first EXCEPT ![r] = new]
         /\ used' = used \cup {r} /\ code' = [code EXCEPT ![r] = f.code]
         /\ job' = [job EXCEPT !.features = Tail(@)]
      \/ job' = NoJob /\ UNCHANGED <<db, used, first, code>>

LEMMA CreatedAs ==
  ASSUME CreateRow
  PROVE  /\ job.step = "create" /\ job.features # << >>
         /\ UNCHANGED <<roles, audit, req, spent, login>>
         /\ \E region \in Coded("region", Head(job.features).region), district \in Coded("district", Head(job.features).district) :
              Creates(region, district)
BY DEF CreateRow, Creates

LEMMA CodedIs ==
  ASSUME NEW t \in Tables, NEW x, NEW r \in Coded(t, x), job.known \subseteq Rows
  PROVE  r \in RowsOf[t] \cup {None}
         /\ (r # None => x # None /\ r \in job.known /\ Table[r] = t /\ code[r] = x)
         /\ (r = None => \A y \in job.known : ~(x # None /\ Table[y] = t /\ code[y] = x))
<1> DEFINE found == {y \in job.known : x # None /\ Table[y] = t /\ code[y] = x}
<1>1. r \in IF found = {} THEN {None} ELSE found
  BY DEF Coded
<1>2. None \notin found
  BY RowsAssumption
<1> QED
  BY <1>1, <1>2 DEF RowsOf

LEMMA FeaturesLeft ==
  ASSUME NEW file \in Seq(Features("region")) \cup Seq(Features("district")) \cup Seq(Features("mahalla")),
         NEW S, NEW features \in Seq(S), features # << >>, NEW k \in Nat, LeftOf(file, features, k)
  PROVE  /\ Tail(features) \in Seq(S) /\ LeftOf(file, Tail(features), k + 1)
         /\ k + 1 \in DOMAIN file /\ Head(features) = file[k + 1]
BY DEF LeftOf

LEMMA CreateFields ==
  ASSUME JobOK(job), job.step = "create", job.features # << >>
  PROVE  /\ Head(job.todo) \in LoadedTables /\ job.known \subseteq Rows /\ LoadFields(job)
         /\ [job EXCEPT !.features = Tail(@)] =
              [step |-> "create", todo |-> job.todo, plan |-> job.plan, alone |-> job.alone, since |-> job.since,
               features |-> Tail(job.features), known |-> job.known]
         /\ JobOK([job EXCEPT !.features = Tail(@)])
<1>1. /\ LoadFields(job) /\ job.todo # << >> /\ job.known \subseteq Rows
      /\ job = [step |-> "create", todo |-> job.todo, plan |-> job.plan, alone |-> job.alone, since |-> job.since,
                features |-> job.features, known |-> job.known]
      /\ job.features \in Seq(Features(Head(job.todo)))
      /\ \E k \in Nat : LeftOf(GeoFile[Head(job.todo)], job.features, k)
  BY DEF JobOK, NoJob
<1>2. Head(job.todo) \in LoadedTables
  BY <1>1, RemaindersAre DEF LoadFields
<1> DEFINE after == [step |-> "create", todo |-> job.todo, plan |-> job.plan, alone |-> job.alone, since |-> job.since,
                     features |-> Tail(job.features), known |-> job.known]
<1>3. [job EXCEPT !.features = Tail(@)] = after
  <2>1. job = [step |-> "create", todo |-> job.todo, plan |-> job.plan, alone |-> job.alone, since |-> job.since,
               features |-> job.features, known |-> job.known]
    BY <1>1
  <2>2. \A rest : [job EXCEPT !.features = rest] =
          [step |-> "create", todo |-> job.todo, plan |-> job.plan, alone |-> job.alone, since |-> job.since,
           features |-> rest, known |-> job.known]
    BY <2>1
  <2> QED
    BY <2>2
<1>4. Tail(job.features) \in Seq(Features(Head(job.todo)))
      /\ \E k \in Nat : LeftOf(GeoFile[Head(job.todo)], Tail(job.features), k)
  <2>1. PICK k \in Nat : LeftOf(GeoFile[Head(job.todo)], job.features, k)
    BY <1>1
  <2>2. GeoFile[Head(job.todo)] \in Seq(Features("region")) \cup Seq(Features("district")) \cup Seq(Features("mahalla"))
    BY <1>2, FilesAssumption DEF LoadedTables
  <2>3. LeftOf(GeoFile[Head(job.todo)], Tail(job.features), k + 1) /\ Tail(job.features) \in Seq(Features(Head(job.todo)))
    BY <2>1, <2>2, <1>1, FeaturesLeft
  <2> QED
    BY <2>3
<1>5. JobOK(after)
  <2>1. LoadFields(after)
    BY <1>1 DEF LoadFields
  <2> QED
    BY <2>1, <1>1, <1>4 DEF JobOK
<1> QED
  BY <1>1, <1>2, <1>3, <1>5

LEMMA CreateStep ==
  ASSUME RegistryInv, JobOK(job), CreateRow
  PROVE  RegistryInv' /\ JobOK(job')
<1> DEFINE t == Head(job.todo)
           f == Head(job.features)
<1>1. /\ job.step = "create" /\ job.features # << >>
      /\ UNCHANGED <<roles, audit, req, spent, login>>
  BY CreatedAs
<1>2. PICK region \in Coded("region", f.region), district \in Coded("district", f.district) :
        Creates(region, district)
  BY CreatedAs
<1>3. t \in LoadedTables /\ JobOK([job EXCEPT !.features = Tail(@)]) /\ JobOK(NoJob) /\ job.known \subseteq Rows
  BY <1>1, CreateFields DEF JobOK
<1>4. JobOK(job')
  BY <1>2, <1>3 DEF Creates
<1> DEFINE new == Content(t, f, region, district)
           r == CHOOSE x \in New(t) : TRUE
<1>5. \/ UNCHANGED <<db, used, first>>
      \/ /\ Fits(CHOOSE x \in RowsOf[t] : TRUE, new) /\ New(t) # {}
         /\ db' = [db EXCEPT ![r] = new] /\ first' = [first EXCEPT ![r] = new] /\ used' = used \cup {r}
  BY <1>2 DEF Creates
<1>6. spent' \in Nat /\ roles' \in [RowsOf["user"] -> SUBSET Roles]
  BY <1>1 DEF RegistryInv, DataInv, DataTyped
<1>7. CASE UNCHANGED <<db, used, first>>
  <2>1. DataInv'
    BY <1>1, <1>6, <1>7, DataKept DEF RegistryInv
  <2>2. RequestsOK(req, used, first, audit)'
    BY <1>1, <1>7, RequestsKept DEF RegistryInv
  <2> QED
    BY <2>1, <2>2, <1>4 DEF RegistryInv
<1>8. CASE /\ Fits(CHOOSE x \in RowsOf[t] : TRUE, new) /\ New(t) # {}
           /\ db' = [db EXCEPT ![r] = new] /\ first' = [first EXCEPT ![r] = new] /\ used' = used \cup {r}
  <2>1. r \in New(t)
    BY <1>8
  <2>2. r \in Rows /\ Table[r] = t /\ r \notin used /\ t \in Tables /\ r \in RowsOf[t]
    BY <2>1, <1>3, Loaded, RowsAreOf DEF New
  <2>3. WellFormed(t, new)
    <3>1. region \in RowsOf["region"] \cup {None} /\ district \in RowsOf["district"] \cup {None}
      BY <1>3, CodedIs, TablesAre
    <3> QED
      BY <3>1, <1>3, ContentFits
  <2>4. Fits(r, new)
    <3>1. (CHOOSE x \in RowsOf[t] : TRUE) \in RowsOf[t]
      BY <2>2
    <3>2. PICK o \in RowsOf[t] : Fits(o, new)
      BY <3>1, <1>8
    <3>3. Table[o] = t /\ t # "user" /\ t # "officer"
      BY <3>2, <2>2, <1>3, RowsAreOf DEF LoadedTables
    <3> QED
      BY <3>2, <3>3, <2>2 DEF Fits, FitsIn
  <2> HIDE DEF new, r
  <2>5. DataInv'
    <3>1. Table[r] # "attendance"
      BY <2>2, <1>3 DEF LoadedTables
    <3> QED
      BY <3>1, <2>2, <2>3, <2>4, <1>1, <1>6, <1>8, DataAfterWrite DEF RegistryInv
  <2>6. RequestsOK(req, used, first, audit)'
    <3>1. used \subseteq used' /\ \A v \in used : first'[v] = first[v]
      BY <2>2, <1>8 DEF RegistryInv, DataInv, DataTyped
    <3> QED
      BY <3>1, <1>1, RequestsKept DEF RegistryInv
  <2> QED
    BY <2>5, <2>6, <1>4 DEF RegistryInv
<1> QED
  BY <1>5, <1>7, <1>8

LEMMA DataSame ==
  ASSUME RegistryInv, UNCHANGED <<db, used, roles, audit, first, req>>, spent' \in Nat
  PROVE  RegistryInv'
<1>1. DataInv'
  BY DataKept DEF RegistryInv, DataInv, DataTyped
<1>2. RequestsOK(req, used, first, audit)'
  BY RequestsKept DEF RegistryInv
<1> QED
  BY <1>1, <1>2 DEF RegistryInv

LEMMA LoadPlanSteps ==
  ASSUME RegistryInv, JobOK(job), StartLoad \/ ReadParents \/ NextTable \/ JobDies
  PROVE  RegistryInv' /\ JobOK(job')
<1>0. spent \in Nat
  BY DEF RegistryInv, DataInv, DataTyped
<1>1. CASE StartLoad
  <2>1. PICK plan \in Plans :
          StartJob([step |-> "clear", todo |-> plan, plan |-> plan, alone |-> Alone, since |-> spent + 1])
    BY <1>1 DEF StartLoad, Plans
  <2> DEFINE j == [step |-> "clear", todo |-> plan, plan |-> plan, alone |-> Alone, since |-> spent + 1]
  <2>2. job' = j /\ UNCHANGED <<db, used, roles, audit, first, req>> /\ spent' = spent + 1
    BY <2>1 DEF StartJob
  <2>3. JobOK(j)
    <3>1. plan \in Remainders(plan) /\ plan # << >>
      BY DEF Plans, Remainders, Levels
    <3>2. LoadFields(j)
      BY <3>1, <1>0 DEF LoadFields, Alone
    <3> QED
      BY <3>1, <3>2 DEF JobOK
  <2> HIDE DEF j
  <2> QED
    BY <2>2, <2>3, <1>0, DataSame
<1>2. CASE ReadParents
  <2> DEFINE known == CASE Head(job.todo) = "region" -> {} [] Head(job.todo) = "district" -> In("region")
                         [] OTHER -> In("region") \cup In("district")
             j == [step |-> "create", todo |-> job.todo, plan |-> job.plan, alone |-> job.alone,
                   since |-> job.since, features |-> GeoFile[Head(job.todo)], known |-> known]
  <2>1. job.step = "parents" /\ job' = j /\ UNCHANGED registryVars
    BY <1>2 DEF ReadParents
  <2>2. LoadFields(job) /\ job.todo # << >>
    BY <2>1 DEF JobOK, NoJob
  <2>3. Head(job.todo) \in LoadedTables
    BY <2>2, RemaindersAre DEF LoadFields
  <2>4. known \subseteq Rows
    BY InRows, TablesAre
  <2>5. GeoFile[Head(job.todo)] \in Seq(Features(Head(job.todo))) /\ LeftOf(GeoFile[Head(job.todo)], GeoFile[Head(job.todo)], 0)
    BY <2>3, FilesAssumption DEF LeftOf
  <2> HIDE DEF known
  <2>6. JobOK(j)
    <3>1. LoadFields(j)
      BY <2>2 DEF LoadFields
    <3>2. /\ j.step = "create" /\ j.todo # << >> /\ j.known \subseteq Rows
          /\ j.features \in Seq(Features(Head(j.todo))) /\ LeftOf(GeoFile[Head(j.todo)], j.features, 0)
      BY <2>2, <2>4, <2>5
    <3> QED
      BY <3>1, <3>2 DEF JobOK
  <2> HIDE DEF j
  <2> QED
    BY <2>1, <2>6, <1>0, DataSame DEF registryVars
<1>3. CASE NextTable
  <2> DEFINE j == [step |-> IF Len(job.todo) = 1 THEN "loaded" ELSE "clear", todo |-> Tail(job.todo),
                   plan |-> job.plan, alone |-> job.alone, since |-> job.since]
  <2>1. job.step = "create" /\ job' = j /\ UNCHANGED registryVars
    BY <1>3 DEF NextTable
  <2>2. LoadFields(job) /\ job.todo # << >>
    BY <2>1 DEF JobOK, NoJob
  <2>3. Tail(job.todo) \in Remainders(job.plan) /\ (Len(job.todo) = 1 <=> Tail(job.todo) = << >>)
    BY <2>2, RemaindersAre DEF LoadFields
  <2>4. JobOK(j)
    <3>1. LoadFields(j)
      BY <2>2, <2>3 DEF LoadFields
    <3> QED
      BY <3>1, <2>3 DEF JobOK
  <2> HIDE DEF j
  <2> QED
    BY <2>1, <2>4, <1>0, DataSame DEF registryVars
<1>4. CASE JobDies
  BY <1>4, <1>0, DataSame DEF JobDies, registryVars, JobOK
<1> QED
  BY <1>1, <1>2, <1>3, <1>4

LEMMA StartImportStep ==
  ASSUME RegistryInv, JobOK(job), StartImport
  PROVE  RegistryInv' /\ JobOK(job')
<1>0. spent \in Nat
  BY DEF RegistryInv, DataInv, DataTyped
<1>1. PICK o \in In("organization"), update \in BOOLEAN,
           d \in In("department") \cup {None}, n \in In("special_rank") \cup {None}, q \in In("position") \cup {None} :
        StartJob([step |-> "sheet", org |-> o, department |-> d, position |-> q, special_rank |-> n,
                  present |-> {p \in Listed : Holders(p) # {}}, update |-> update,
                  alone |-> Alone, since |-> spent + 1])
  BY DEF StartImport
<1> DEFINE j == [step |-> "sheet", org |-> o, department |-> d, position |-> q, special_rank |-> n,
                  present |-> {p \in Listed : Holders(p) # {}}, update |-> update,
                  alone |-> Alone, since |-> spent + 1]
<1>2. job' = j /\ UNCHANGED <<db, used, roles, audit, first, req>> /\ spent' = spent + 1
  BY <1>1 DEF StartJob
<1>3. JobOK(j)
  <2>1. /\ o \in RowsOf["organization"] /\ d \in RowsOf["department"] \cup {None}
        /\ q \in RowsOf["position"] \cup {None} /\ n \in RowsOf["special_rank"] \cup {None}
    BY DEF In
  <2>2. ImportFields(j)
    BY <2>1, <1>0 DEF ImportFields, Alone
  <2> QED
    BY <2>2 DEF JobOK
<1> HIDE DEF j
<1> QED
  BY <1>0, <1>2, <1>3, DataSame

------------------------------------------------------------------------------
(* The import *)

\* The references of a user are named like their tables.
LEMMA UserReferencesAre ==
  /\ \A x \in ReferencesOf["user"] : x.field \in UserFields /\ x.to = x.field /\ x.onDelete = "SET_NULL"
  /\ \A f \in UserFields : \E x \in ReferencesOf["user"] : x.field = f /\ x.to = f /\ x.onDelete = "SET_NULL"
<1>1. \A x \in ReferencesOf["user"] : x.field \in UserFields /\ x.to = x.field /\ x.onDelete = "SET_NULL"
  BY ReferencesWritten DEF UserReferences, UserFields, Refers
<1>2. ASSUME NEW f \in UserFields
      PROVE  \E x \in ReferencesOf["user"] : x.field = f /\ x.to = f /\ x.onDelete = "SET_NULL"
  <2>1. Refers("user", f, f, "SET_NULL") \in ReferencesOf["user"]
    BY ReferencesWritten DEF UserReferences, UserFields
  <2> QED
    BY <2>1 DEF Refers
<1> QED
  BY <1>1, <1>2

LEMMA UserWellFormed ==
  ASSUME NEW content
  PROVE  WellFormed("user", content) <=>
           /\ DOMAIN content = UserFields \cup {"pinfl", "hash"}
           /\ content = [f \in UserFields \cup {"pinfl", "hash"} |-> content[f]]
           /\ \A f \in UserFields : content[f] \in RowsOf[f] \cup {None}
           /\ content.pinfl \in Pinfls \cup {None} /\ content.hash = Hash(content.pinfl)
<1>1. (\A x \in ReferencesOf["user"] : \/ content[x.field] \in RowsOf[x.to]
                                       \/ content[x.field] = None /\ x.onDelete = "SET_NULL")
        <=> \A f \in UserFields : content[f] \in RowsOf[f] \cup {None}
  BY UserReferencesAre
<1> QED
  BY <1>1, ColumnsWritten DEF WellFormed

LEMMA UserFits ==
  ASSUME NEW rows, NEW u \in Rows, Table[u] = "user", NEW content,
         \A f \in UserFields : content[f] # None => content[f] \in RowsOf[f] /\ rows[content[f]] # Gone,
         \A o \in RowsOf["user"] \ {u} : rows[o] # Gone => content.pinfl = None \/ rows[o].pinfl # content.pinfl
  PROVE  FitsIn(rows, u, content)
BY UserReferencesAre DEF FitsIn

Assigned(content, d, q, n) ==
  /\ content.organization = job.org /\ content.department = d /\ content.position = q /\ content.special_rank = n

LEMMA BornRow ==
  ASSUME NEW p \in Pinfls, job.org \in RowsOf["organization"], NEW d \in RowsOf["department"],
         NEW q \in RowsOf["position"], NEW n \in RowsOf["special_rank"], NEW new,
         new = WithHash("user", Over([pinfl |-> p], Over(Placed(d, q, n), Blank("user"))))
  PROVE  /\ WellFormed("user", new) /\ Assigned(new, d, q, n) /\ new.pinfl = p
         /\ new.region = None /\ new.district = None
<1> DEFINE columns == UserFields \cup {"pinfl", "hash"}
           blank == Blank("user")
           placed == Placed(d, q, n)
           inner == Over(placed, blank)
           over == Over([pinfl |-> p], inner)
<1>1. blank = [f \in columns |-> None]
  <2>1. Settable["user"] = UserFields \cup {"pinfl"}
    BY ReferencesWritten, UserFieldsAre, TablesAre DEF Settable
  <2> QED
    BY <2>1 DEF Blank
<1>2. /\ DOMAIN placed = {"organization", "department", "position", "special_rank"}
      /\ placed.organization = job.org /\ placed.department = d /\ placed.position = q /\ placed.special_rank = n
  BY DEF Placed
<1>3. UserFields = {"organization", "department", "position", "region", "district", "special_rank"}
  BY DEF UserFields
<1> HIDE DEF blank, placed
<1>4. /\ DOMAIN inner = columns
      /\ \A f \in columns : inner[f] = IF f \in DOMAIN placed THEN placed[f] ELSE None
  BY <1>1, <1>2, <1>3 DEF Over
<1> HIDE DEF inner
<1>5. /\ DOMAIN over = columns /\ over = [f \in columns |-> over[f]]
      /\ \A f \in columns : over[f] = IF f = "pinfl" THEN p ELSE IF f \in DOMAIN placed THEN placed[f] ELSE None
  <2>1. over = [f \in {"pinfl"} \cup DOMAIN inner |-> IF f = "pinfl" THEN p ELSE inner[f]]
    BY DEF Over
  <2>2. {"pinfl"} \cup DOMAIN inner = columns /\ "pinfl" \in columns
    BY <1>4
  <2> QED
    BY <2>1, <2>2, <1>4
<1> HIDE DEF over
<1>6. new = [over EXCEPT !["hash"] = Hash(over.pinfl)]
  BY DEF WithHash, over, inner, placed, blank
<1>7. /\ DOMAIN new = columns /\ new = [f \in columns |-> new[f]]
      /\ \A f \in columns : new[f] = IF f = "hash" THEN Hash(p) ELSE IF f = "pinfl" THEN p
                                     ELSE IF f \in DOMAIN placed THEN placed[f] ELSE None
  BY <1>5, <1>6
<1>8. /\ new.organization = job.org /\ new.department = d /\ new.position = q /\ new.special_rank = n
      /\ new.region = None /\ new.district = None /\ new.pinfl = p /\ new.hash = Hash(p)
  BY <1>7, <1>2, <1>3
<1>9. \A f \in UserFields : new[f] \in RowsOf[f] \cup {None}
  BY <1>8, <1>3
<1> QED
  BY <1>7, <1>8, <1>9, UserWellFormed DEF Assigned

LEMMA UpdatedRow ==
  ASSUME NEW old, WellFormed("user", old), job.org \in RowsOf["organization"], NEW d \in RowsOf["department"],
         NEW q \in RowsOf["position"], NEW n \in RowsOf["special_rank"], NEW new, new = Over(Placed(d, q, n), old)
  PROVE  /\ WellFormed("user", new) /\ Assigned(new, d, q, n)
         /\ \A f \in {"region", "district", "pinfl", "hash"} : new[f] = old[f]
         /\ DOMAIN new = DOMAIN old
         /\ \A f \in DOMAIN new : new[f] = old[f] \/ (f \in DOMAIN Placed(d, q, n) /\ new[f] = Placed(d, q, n)[f])
<1> DEFINE columns == UserFields \cup {"pinfl", "hash"}
           placed == Placed(d, q, n)
<1>1. /\ DOMAIN placed = {"organization", "department", "position", "special_rank"}
      /\ placed.organization = job.org /\ placed.department = d /\ placed.position = q /\ placed.special_rank = n
  BY DEF Placed
<1>2. UserFields = {"organization", "department", "position", "region", "district", "special_rank"}
  BY DEF UserFields
<1>3. DOMAIN old = columns /\ (\A f \in UserFields : old[f] \in RowsOf[f] \cup {None})
      /\ old.pinfl \in Pinfls \cup {None} /\ old.hash = Hash(old.pinfl)
  BY UserWellFormed
<1> HIDE DEF placed
<1>4. /\ DOMAIN new = columns /\ new = [f \in columns |-> new[f]]
      /\ \A f \in columns : new[f] = IF f \in DOMAIN placed THEN placed[f] ELSE old[f]
  BY <1>1, <1>2, <1>3 DEF Over, placed
<1>5. /\ new.organization = job.org /\ new.department = d /\ new.position = q /\ new.special_rank = n
      /\ \A f \in {"region", "district", "pinfl", "hash"} : new[f] = old[f]
  BY <1>4, <1>1, <1>2
<1>6. \A f \in UserFields : new[f] \in RowsOf[f] \cup {None}
  BY <1>5, <1>2, <1>3
<1>7. WellFormed("user", new)
  BY <1>3, <1>4, <1>5, <1>6, UserWellFormed
<1> QED
  BY <1>3, <1>4, <1>5, <1>7 DEF Assigned, placed

\* The rows of an import that is not refused.
Born(user) == {user[p] : p \in Added}
Fresh(d, q, n) == {d, q, n} \ {job.department, job.position, job.special_rank}

Imports(d, q, n, user) ==
  /\ d \in Named("department", job.department) /\ q \in Named("position", job.position)
  /\ n \in Named("special_rank", job.special_rank) /\ user \in [Added -> New("user")]
  /\ \A p, s \in Added : user[p] = user[s] => p = s
  /\ LET saved == Born(user) \cup Updated \cup Fresh(d, q, n) IN
     /\ db' = [r \in Rows |-> IF r \in saved THEN Saved(d, q, n, user, r) ELSE db[r]]
     /\ used' = used \cup saved
     /\ first' = [r \in Rows |-> IF r \in used THEN first[r] ELSE db'[r]]
     /\ roles' = [u \in DOMAIN roles |-> IF u \in Born(user) THEN {"OFFICER"} ELSE roles[u]]
     /\ audit' = audit \cup UNION {{<<u, f, Placed(d, q, n)[f]>> :
                                       f \in {g \in DOMAIN Placed(d, q, n) : Placed(d, q, n)[g] # db[u][g]}} : u \in Updated}

LEMMA ImportedAs ==
  ASSUME RunImport
  PROVE  /\ job.step = "sheet" /\ UNCHANGED <<req, spent, code>>
         /\ \/ Refused /\ job' = NoJob /\ UNCHANGED <<db, used, roles, audit, first>>
            \/ /\ ~Refused /\ job' = [job EXCEPT !.step = "imported"]
               /\ Added = {} /\ ~job.update /\ UNCHANGED <<db, used, roles, audit, first>>
            \/ /\ ~Refused /\ job' = [job EXCEPT !.step = "imported"]
               /\ \E d, q, n, user : Imports(d, q, n, user)
<1>1. CASE Refused \/ (Added = {} /\ ~job.update)
  BY <1>1 DEF RunImport
<1>2. CASE ~(Refused \/ (Added = {} /\ ~job.update))
  <2>1. \E d \in Named("department", job.department), q \in Named("position", job.position),
             n \in Named("special_rank", job.special_rank), user \in [Added -> New("user")] : Imports(d, q, n, user)
    BY <1>2 DEF RunImport, Imports, Born, Fresh
  <2> QED
    BY <2>1, <1>2 DEF RunImport
<1> QED
  BY <1>1, <1>2

LEMMA ImportSets ==
  ASSUME RegistryInv, JobOK(job), job.step = "sheet", ~Refused, NEW d, NEW q, NEW n, NEW user, Imports(d, q, n, user)
  PROVE  /\ job.org \in In("organization")
         /\ d \in RowsOf["department"] /\ (d \in Fresh(d, q, n) \/ Exists(d)) /\ (d \in Fresh(d, q, n) => d \notin used)
         /\ q \in RowsOf["position"] /\ (q \in Fresh(d, q, n) \/ Exists(q)) /\ (q \in Fresh(d, q, n) => q \notin used)
         /\ n \in RowsOf["special_rank"] /\ (n \in Fresh(d, q, n) \/ Exists(n)) /\ (n \in Fresh(d, q, n) => n \notin used)
         /\ \A u \in Born(user) : u \in RowsOf["user"] /\ u \notin used
         /\ \A u \in Born(user) : Owner(user, u) \in Added /\ user[Owner(user, u)] = u
         /\ Added \subseteq Pinfls /\ \A p \in Added : Owner(user, user[p]) = p
         /\ Updated \subseteq In("user") /\ \A u \in In("user") : db[u].pinfl \notin Added
<1>1. ImportFields(job)
  BY DEF JobOK, NoJob
<1>2. /\ job.org \in RowsOf["organization"] /\ job.department \in RowsOf["department"] \cup {None}
      /\ job.position \in RowsOf["position"] \cup {None} /\ job.special_rank \in RowsOf["special_rank"] \cup {None}
  BY <1>1 DEF ImportFields
<1>3. \A t \in {"organization", "department", "position", "special_rank", "user"} :
        \A r \in RowsOf[t] : r \in Rows /\ Table[r] = t /\ r # None
  BY RowsAreOf, TablesAre, RowsAssumption
<1>4. \A r \in {job.org, job.department, job.position, job.special_rank} : r # None => Exists(r)
  BY DEF Refused
<1>5. \A r \in Rows : Exists(r) => r \in used
  BY DEF RegistryInv, DataInv, DataTyped
<1>6. /\ IF job.department # None THEN d = job.department ELSE d \in RowsOf["department"] /\ d \notin used
      /\ IF job.position # None THEN q = job.position ELSE q \in RowsOf["position"] /\ q \notin used
      /\ IF job.special_rank # None THEN n = job.special_rank ELSE n \in RowsOf["special_rank"] /\ n \notin used
  BY DEF Imports, Named, New
<1>7. /\ d \in RowsOf["department"] /\ q \in RowsOf["position"] /\ n \in RowsOf["special_rank"]
      /\ job.org \in In("organization")
  BY <1>2, <1>3, <1>4, <1>6 DEF In
<1>8. /\ d \in Fresh(d, q, n) <=> job.department = None
      /\ q \in Fresh(d, q, n) <=> job.position = None
      /\ n \in Fresh(d, q, n) <=> job.special_rank = None
  BY <1>2, <1>3, <1>6, <1>7 DEF Fresh
<1>9. /\ (d \in Fresh(d, q, n) \/ Exists(d)) /\ (d \in Fresh(d, q, n) => d \notin used)
      /\ (q \in Fresh(d, q, n) \/ Exists(q)) /\ (q \in Fresh(d, q, n) => q \notin used)
      /\ (n \in Fresh(d, q, n) \/ Exists(n)) /\ (n \in Fresh(d, q, n) => n \notin used)
  BY <1>4, <1>6, <1>8
<1>10. user \in [Added -> New("user")] /\ \A p, s \in Added : user[p] = user[s] => p = s
  BY DEF Imports
<1>11. \A u \in Born(user) : u \in RowsOf["user"] /\ u \notin used
  BY <1>10 DEF Born, New
<1>12. ASSUME NEW p \in Added PROVE Owner(user, user[p]) = p
  <2>1. \A s \in Added : user[s] = user[p] <=> s = p
    BY <1>10
  <2> QED
    BY <2>1 DEF Owner
<1>13. \A u \in Born(user) : Owner(user, u) \in Added /\ user[Owner(user, u)] = u
  BY <1>12 DEF Born
<1>14. Added \subseteq Pinfls
  <2>1. \A i \in DOMAIN Sheet : Sheet[i] \in Pinfls \cup {None}
    BY FilesAssumption
  <2> QED
    BY <2>1 DEF Added, Listed
<1>15. Updated \subseteq In("user") /\ \A u \in In("user") : db[u].pinfl \notin Added
  BY DEF Updated, Refused
<1> QED
  BY <1>7, <1>9, <1>11, <1>12, <1>13, <1>14, <1>15

\* The row of a user who is added, and of one who is updated.
AddedAs(u, d, q, n, user) ==
  /\ WellFormed("user", db'[u]) /\ Assigned(db'[u], d, q, n)
  /\ db'[u].pinfl = Owner(user, u) /\ db'[u].region = None /\ db'[u].district = None

UpdatedAs(u, d, q, n) ==
  /\ WellFormed("user", db'[u]) /\ Assigned(db'[u], d, q, n)
  /\ \A f \in {"region", "district", "pinfl", "hash"} : db'[u][f] = db[u][f]
  /\ DOMAIN db'[u] = DOMAIN db[u]
  /\ \A f \in DOMAIN db'[u] : \/ db'[u][f] = db[u][f]
                              \/ f \in DOMAIN Placed(d, q, n) /\ db'[u][f] = Placed(d, q, n)[f]

LEMMA ImportRows ==
  ASSUME RegistryInv, JobOK(job), job.step = "sheet", ~Refused, NEW d, NEW q, NEW n, NEW user, Imports(d, q, n, user)
  PROVE  /\ \A r \in Rows : r \notin Born(user) \cup Updated \cup Fresh(d, q, n) => db'[r] = db[r]
         /\ \A u \in Born(user) : AddedAs(u, d, q, n, user)
         /\ \A u \in Updated : UpdatedAs(u, d, q, n)
         /\ d \in Fresh(d, q, n) => db'[d] = [organization |-> job.org]
         /\ q \in Fresh(d, q, n) => db'[q] = [department |-> d]
         /\ n \in Fresh(d, q, n) => db'[n] = [f \in {} |-> None]
         /\ db' = [r \in Rows |-> db'[r]]
<1> DEFINE saved == Born(user) \cup Updated \cup Fresh(d, q, n)
<1>1. db' = [r \in Rows |-> IF r \in saved THEN Saved(d, q, n, user, r) ELSE db[r]]
  BY DEF Imports
<1>2. /\ job.org \in In("organization") /\ d \in RowsOf["department"] /\ q \in RowsOf["position"] /\ n \in RowsOf["special_rank"]
      /\ \A u \in Born(user) : u \in RowsOf["user"] /\ u \notin used /\ Owner(user, u) \in Added
      /\ Added \subseteq Pinfls /\ Updated \subseteq In("user")
  BY ImportSets
<1>3. job.org \in RowsOf["organization"]
  BY <1>2 DEF In
<1>4. /\ d \in Rows /\ Table[d] = "department" /\ q \in Rows /\ Table[q] = "position"
      /\ n \in Rows /\ Table[n] = "special_rank"
      /\ \A u \in Born(user) \cup Updated : u \in Rows /\ Table[u] = "user" /\ u # d /\ u # q
      /\ \A u \in Updated : u \in used /\ u \notin Born(user)
  <2>1. \A v \in Updated : v \in Rows /\ Table[v] = "user" /\ v \in used
    BY <1>2, InRows, TablesAre DEF RegistryInv, DataInv, DataTyped
  <2>2. \A v \in Born(user) : v \in Rows /\ Table[v] = "user"
    BY <1>2, RowsAreOf, TablesAre
  <2>3. /\ d \in Rows /\ Table[d] = "department" /\ q \in Rows /\ Table[q] = "position"
        /\ n \in Rows /\ Table[n] = "special_rank"
    BY <1>2, RowsAreOf, TablesAre
  <2> QED
    BY <2>1, <2>2, <2>3, <1>2
<1>5. ASSUME NEW u \in Born(user)
      PROVE  AddedAs(u, d, q, n, user)
  <2>1. u \in Rows /\ Owner(user, u) \in Pinfls
    BY <1>2, RowsAreOf, TablesAre
  <2>2. Saved(d, q, n, user, u) = WithHash("user", Over([pinfl |-> Owner(user, u)], Over(Placed(d, q, n), Blank("user"))))
    <3>1. u \in {user[p] : p \in Added} /\ u \notin Updated /\ u # d /\ u # q
      BY <1>5, <1>4 DEF Born
    <3> QED
      BY <3>1 DEF Saved
  <2>3. db'[u] = Saved(d, q, n, user, u)
    BY <2>1, <1>1
  <2> QED
    BY <2>1, <2>2, <2>3, <1>2, <1>3, BornRow DEF AddedAs
<1>6. ASSUME NEW u \in Updated
      PROVE  UpdatedAs(u, d, q, n)
  <2>1. u \in Rows /\ Table[u] = "user" /\ Exists(u)
    BY <1>2, InRows, TablesAre
  <2>2. Saved(d, q, n, user, u) = Over(Placed(d, q, n), db[u])
    <3>1. u \notin {user[p] : p \in Added} /\ u \in Updated /\ u # d /\ u # q
      BY <1>6, <1>4 DEF Born
    <3> QED
      BY <3>1 DEF Saved
  <2>3. db'[u] = Over(Placed(d, q, n), db[u])
    BY <2>1, <2>2, <1>1
  <2>4. WellFormed("user", db[u])
    BY <2>1, RowFacts DEF RegistryInv, DataInv
  <2> QED
    BY <2>3, <2>4, <1>2, <1>3, UpdatedRow DEF UpdatedAs
<1>7. d \in Fresh(d, q, n) => db'[d] = [organization |-> job.org]
  BY <1>1, <1>4 DEF Saved, Born
<1>8. q \in Fresh(d, q, n) => db'[q] = [department |-> d]
  BY <1>1, <1>4 DEF Saved, Born
<1>9. n \in Fresh(d, q, n) => db'[n] = [f \in {} |-> None]
  <2>1. Blank("special_rank") = [f \in {} |-> None]
    BY ReferencesWritten, TablesAre DEF Blank, Settable
  <2> QED
    BY <2>1, <1>1, <1>4 DEF Saved, Born
<1>10. \A r \in Rows : r \notin saved => db'[r] = db[r]
  BY <1>1
<1>11. db' = [r \in Rows |-> db'[r]]
  BY <1>1
<1> QED
  BY <1>5, <1>6, <1>7, <1>8, <1>9, <1>10, <1>11

LEMMA ImportedRowsFit ==
  ASSUME RegistryInv, JobOK(job), job.step = "sheet", ~Refused, NEW d, NEW q, NEW n, NEW user, Imports(d, q, n, user)
  PROVE  RowsFit(db') /\ \A r \in Rows : db[r] # Gone => db'[r] # Gone
<1> DEFINE born == Born(user)
           fresh == Fresh(d, q, n)
<1>1. /\ job.org \in In("organization")
      /\ d \in RowsOf["department"] /\ (d \in fresh \/ Exists(d))
      /\ q \in RowsOf["position"] /\ (q \in fresh \/ Exists(q))
      /\ n \in RowsOf["special_rank"] /\ (n \in fresh \/ Exists(n))
      /\ Updated \subseteq In("user") /\ \A u \in In("user") : db[u].pinfl \notin Added
  BY ImportSets
<1>2. /\ \A u \in born : u \in RowsOf["user"] /\ u \notin used
      /\ \A u \in born : Owner(user, u) \in Added /\ user[Owner(user, u)] = u
  BY ImportSets
<1>3. /\ \A r \in Rows : r \notin born \cup Updated \cup fresh => db'[r] = db[r]
      /\ d \in fresh => db'[d] = [organization |-> job.org]
      /\ q \in fresh => db'[q] = [department |-> d]
      /\ n \in fresh => db'[n] = [f \in {} |-> None]
      /\ db' = [r \in Rows |-> db'[r]]
  BY ImportRows
<1>4. /\ \A u \in born : /\ WellFormed("user", db'[u]) /\ Assigned(db'[u], d, q, n)
                         /\ db'[u].pinfl = Owner(user, u) /\ db'[u].region = None /\ db'[u].district = None
      /\ \A u \in Updated : /\ WellFormed("user", db'[u]) /\ Assigned(db'[u], d, q, n)
                            /\ \A f \in {"region", "district", "pinfl", "hash"} : db'[u][f] = db[u][f]
  <2>1. (\A u \in Born(user) : AddedAs(u, d, q, n, user)) /\ (\A u \in Updated : UpdatedAs(u, d, q, n))
    BY ImportRows
  <2> QED
    BY <2>1 DEF AddedAs, UpdatedAs
<1>5. /\ \A r \in Rows : db[r] # Gone => WellFormed(Table[r], db[r]) /\ FitsIn(db, r, db[r]) /\ db[r] \in AnyRow
      /\ \A r \in Rows : db[r] # Gone => r \in used
  BY DEF RegistryInv, DataInv, DataTyped, RowsFit, Exists
<1>6. /\ d \in Rows /\ Table[d] = "department" /\ q \in Rows /\ Table[q] = "position"
      /\ n \in Rows /\ Table[n] = "special_rank"
      /\ \A u \in born \cup Updated : u \in Rows /\ Table[u] = "user"
      /\ \A u \in Updated : db[u] # Gone
      /\ job.org \in Rows /\ Table[job.org] = "organization" /\ db[job.org] # Gone
      /\ \A t \in Tables : \A r \in RowsOf[t] : r \in Rows /\ r # None
  BY <1>1, <1>2, InRows, RowsAreOf, TablesAre, RowsAssumption DEF Exists
<1>7. \A r \in fresh : r = d \/ r = q \/ r = n
  BY DEF Fresh
<1> HIDE DEF born, fresh
<1>8. ASSUME NEW r \in fresh
      PROVE  WellFormed(Table[r], db'[r])
  <2>1. CASE r = d
    <3>1. \A x \in ReferencesOf["department"] : db'[d][x.field] \in RowsOf[x.to]
      BY <1>8, <2>1, <1>1, <1>3, ReferencesWritten DEF Refers, In
    <3>2. DOMAIN db'[d] = Columns["department"] /\ db'[d] = [f \in Columns["department"] |-> db'[d][f]]
      BY <1>8, <2>1, <1>3, ColumnsWritten
    <3> QED
      BY <2>1, <3>1, <3>2, <1>6 DEF WellFormed
  <2>2. CASE r = q
    <3>1. \A x \in ReferencesOf["position"] : db'[q][x.field] \in RowsOf[x.to]
      BY <1>8, <2>2, <1>1, <1>3, ReferencesWritten DEF Refers
    <3>2. DOMAIN db'[q] = Columns["position"] /\ db'[q] = [f \in Columns["position"] |-> db'[q][f]]
      BY <1>8, <2>2, <1>3, ColumnsWritten
    <3> QED
      BY <2>2, <3>1, <3>2, <1>6 DEF WellFormed
  <2>3. CASE r = n
    BY <1>8, <2>3, <1>3, <1>6, ReferencesWritten, ColumnsWritten DEF WellFormed
  <2> QED
    BY <2>1, <2>2, <2>3, <1>7
<1>9. ASSUME NEW r \in Rows, db'[r] # Gone
      PROVE  WellFormed(Table[r], db'[r])
  BY <1>9, <1>3, <1>4, <1>5, <1>6, <1>8
<1>10. \A r \in Rows : r \in born \cup Updated \cup fresh => db'[r] # Gone
  BY <1>4, <1>6, <1>7, <1>8, RowIsThere, TableOf
<1>11. \A r \in Rows : db[r] # Gone => db'[r] # Gone
  BY <1>3, <1>10
<1>12. db' \in [Rows -> AnyRow \cup {Gone}]
  BY <1>3, <1>9, RowIsThere, TableOf
\* Two users keep different PINFLs.
<1>13. ASSUME NEW u \in Rows, NEW o \in Rows, Table[u] = "user", Table[o] = "user", u # o, db'[u] # Gone, db'[o] # Gone
       PROVE  db'[u].pinfl = None \/ db'[o].pinfl # db'[u].pinfl
  <2>1. \A v \in Rows : Table[v] = "user" /\ db'[v] # Gone =>
          \/ v \in born /\ db'[v].pinfl = Owner(user, v) /\ Owner(user, v) \in Added /\ user[Owner(user, v)] = v
          \/ db[v] # Gone /\ db'[v].pinfl = db[v].pinfl /\ db[v].pinfl \notin Added
    <3> SUFFICES ASSUME NEW v \in Rows, Table[v] = "user", db'[v] # Gone, v \notin born
                 PROVE  db[v] # Gone /\ db'[v].pinfl = db[v].pinfl /\ db[v].pinfl \notin Added
      BY <1>2, <1>4
    <3>1. v \notin fresh
      BY <1>6, <1>7
    <3>2. db[v] # Gone /\ db'[v].pinfl = db[v].pinfl
      BY <3>1, <1>3, <1>4, <1>6
    <3> QED
      BY <3>2, <1>1, InRows, TablesAre DEF Exists
  <2>2. db[u] # Gone /\ db[o] # Gone => db[u].pinfl = None \/ db[o].pinfl # db[u].pinfl
    BY <1>5, <1>13, TableOf DEF FitsIn
  <2> QED
    BY <2>1, <2>2, <1>13
<1>14. ASSUME NEW r \in Rows, db'[r] # Gone
       PROVE  FitsIn(db', r, db'[r])
  <2>1. CASE Table[r] = "user"
    <3>1. ASSUME NEW f \in UserFields, db'[r][f] # None
          PROVE  db'[r][f] \in RowsOf[f] /\ db'[db'[r][f]] # Gone
      <4>1. f \in Tables /\ db'[r][f] \in RowsOf[f]
        BY <3>1, <1>9, <1>14, <2>1, UserWellFormed, TablesAre DEF UserFields
      <4>2. CASE r \in born \cup Updated /\ f \in {"organization", "department", "position", "special_rank"}
        <5>1. db'[r][f] \in {job.org, d, q, n}
          BY <4>2, <1>4 DEF Assigned
        <5> QED
          BY <5>1, <4>1, <1>1, <1>6, <1>10, <1>11 DEF Exists
      <4>3. CASE ~(r \in born \cup Updated /\ f \in {"organization", "department", "position", "special_rank"})
        <5>1. r \notin born
          BY <3>1, <4>3, <1>4 DEF UserFields
        <5>2. db[r] # Gone /\ db'[r][f] = db[r][f]
          BY <3>1, <4>3, <5>1, <1>3, <1>4, <1>6, <1>7, <1>14, <2>1 DEF UserFields
        <5>3. db[db[r][f]] # Gone
          BY <5>2, <3>1, <1>5, <2>1, UserReferencesAre DEF FitsIn
        <5> QED
          BY <4>1, <5>2, <5>3, <1>6, <1>11
      <4> QED
        BY <4>2, <4>3
    <3>2. ASSUME NEW o \in RowsOf["user"] \ {r}, db'[o] # Gone
          PROVE  db'[r].pinfl = None \/ db'[o].pinfl # db'[r].pinfl
      BY <3>2, <2>1, <1>13, <1>14, RowsAreOf, TablesAre
    <3> QED
      BY <3>1, <3>2, <2>1, UserFits
  <2>2. CASE r \in fresh
    <3>1. r = d => \A x \in ReferencesOf["department"] : db'[d][x.field] = job.org
      BY <2>2, <1>3, ReferencesWritten DEF Refers
    <3>2. r = q => \A x \in ReferencesOf["position"] : db'[q][x.field] = d
      BY <2>2, <1>3, ReferencesWritten DEF Refers
    <3>3. \A x \in ReferencesOf[Table[r]] : db'[r][x.field] \in {job.org, d}
      BY <3>1, <3>2, <2>2, <1>6, <1>7, ReferencesWritten
    <3>4. \A x \in ReferencesOf[Table[r]] : db'[r][x.field] \in RowsOf[x.to] \cup {None}
      BY <2>2, <1>8 DEF WellFormed
    <3>5. db'[job.org] # Gone /\ db'[d] # Gone
      BY <1>1, <1>6, <1>10, <1>11 DEF Exists
    <3>6. Table[r] # "user" /\ Table[r] # "officer"
      BY <2>2, <1>6, <1>7
    <3> QED
      BY <3>3, <3>4, <3>5, <3>6 DEF FitsIn
  <2>3. CASE Table[r] # "user" /\ r \notin fresh
    <3>1. \A o \in Rows : Table[o] = "officer" => db'[o] = db[o]
      BY <1>3, <1>6, <1>7
    <3>2. db'[r] = db[r] /\ db[r] # Gone
      BY <2>3, <1>3, <1>6, <1>14
    <3>3. FitsIn(db, r, db[r])
      BY <3>2, <1>5
    <3>4. ASSUME NEW x \in ReferencesOf[Table[r]], db[r][x.field] # None
          PROVE  db[r][x.field] \in RowsOf[x.to] /\ db'[db[r][x.field]] # Gone
      <4>1. x.to \in Tables
        BY TableOf DEF ReferencesOf, Tables
      <4> QED
        BY <4>1, <3>3, <3>4, <1>6, <1>11 DEF FitsIn
    <3>5. ASSUME NEW o \in RowsOf[Table[r]] \ {r}, db'[o] # Gone, Table[r] = "officer"
          PROVE  <<db'[o].organization, db'[o].date>> # <<db[r].organization, db[r].date>>
      <4>1. o \in Rows /\ Table[o] = "officer" /\ db'[o] = db[o]
        BY <3>1, <3>5, RowsAreOf, TablesAre
      <4> QED
        BY <4>1, <3>3, <3>5 DEF FitsIn
    <3> QED
      BY <3>2, <3>4, <3>5, <2>3 DEF FitsIn
  <2> QED
    BY <2>1, <2>2, <2>3
<1> QED
  BY <1>9, <1>11, <1>12, <1>14 DEF RowsFit

LEMMA ImportData ==
  ASSUME RegistryInv, JobOK(job), job.step = "sheet", ~Refused, NEW d, NEW q, NEW n, NEW user, Imports(d, q, n, user),
         UNCHANGED <<req, spent>>
  PROVE  RegistryInv'
<1> DEFINE saved == Born(user) \cup Updated \cup Fresh(d, q, n)
           logs == UNION {{<<u, f, Placed(d, q, n)[f]>> :
                             f \in {g \in DOMAIN Placed(d, q, n) : Placed(d, q, n)[g] # db[u][g]}} : u \in Updated}
<1>1. RowsFit(db') /\ \A r \in Rows : db[r] # Gone => db'[r] # Gone
  BY ImportedRowsFit
<1>2. /\ used' = used \cup saved
      /\ first' = [r \in Rows |-> IF r \in used THEN first[r] ELSE db'[r]]
      /\ roles' = [u \in DOMAIN roles |-> IF u \in Born(user) THEN {"OFFICER"} ELSE roles[u]]
      /\ audit' = audit \cup logs
  BY DEF Imports
<1>3. /\ \A r \in Rows : r \notin saved => db'[r] = db[r]
      /\ \A u \in Updated : UpdatedAs(u, d, q, n)
  <2>1. \A r \in Rows : r \notin saved => db'[r] = db[r]
    BY DEF Imports
  <2>2. \A u \in Updated : UpdatedAs(u, d, q, n)
    BY ImportRows
  <2> QED
    BY <2>1, <2>2
<1>4. /\ job.org \in In("organization") /\ d \in RowsOf["department"] /\ q \in RowsOf["position"] /\ n \in RowsOf["special_rank"]
      /\ \A u \in Born(user) : u \in RowsOf["user"] /\ u \notin used
      /\ d \in Fresh(d, q, n) => d \notin used
      /\ q \in Fresh(d, q, n) => q \notin used
      /\ n \in Fresh(d, q, n) => n \notin used
      /\ Updated \subseteq In("user")
  BY ImportSets
<1>5. /\ job.org \in Rows /\ d \in Rows /\ Table[d] = "department" /\ q \in Rows /\ Table[q] = "position"
      /\ n \in Rows /\ Table[n] = "special_rank"
      /\ \A u \in Born(user) \cup Updated : u \in Rows /\ Table[u] = "user"
      /\ \A u \in Updated : db[u] # Gone /\ u \in used
  <2>1. \A v \in Updated : v \in Rows /\ Table[v] = "user" /\ v \in used /\ db[v] # Gone
    BY <1>4, InRows, TablesAre DEF RegistryInv, DataInv, DataTyped, Exists
  <2>2. \A v \in Born(user) : v \in Rows /\ Table[v] = "user"
    BY <1>4, RowsAreOf, TablesAre
  <2>3. /\ d \in Rows /\ Table[d] = "department" /\ q \in Rows /\ Table[q] = "position"
        /\ n \in Rows /\ Table[n] = "special_rank" /\ job.org \in Rows
    BY <1>4, RowsAreOf, InRows, TablesAre
  <2> QED
    BY <2>1, <2>2, <2>3
<1>6. \A r \in Fresh(d, q, n) : r \in Rows /\ Table[r] # "user" /\ Table[r] # "attendance" /\ r \notin used
  BY <1>4, <1>5 DEF Fresh
<1>7. \A u \in Updated : \A f \in DOMAIN db[u] :
        /\ f \in DOMAIN db'[u]
        /\ db'[u][f] = db[u][f] \/ <<u, f, db'[u][f]>> \in logs
  <2> SUFFICES ASSUME NEW u \in Updated, NEW f \in DOMAIN db[u]
               PROVE  f \in DOMAIN db'[u] /\ (db'[u][f] = db[u][f] \/ <<u, f, db'[u][f]>> \in logs)
    OBVIOUS
  <2>1. /\ DOMAIN db'[u] = DOMAIN db[u]
        /\ \/ db'[u][f] = db[u][f]
           \/ f \in DOMAIN Placed(d, q, n) /\ db'[u][f] = Placed(d, q, n)[f]
    BY <1>3 DEF UpdatedAs
  <2> QED
    BY <2>1
<1>8. LogTyped'
  <2>1. ASSUME NEW u \in Updated, NEW f \in DOMAIN Placed(d, q, n)
        PROVE  f \in Settable["user"] /\ Placed(d, q, n)[f] \in Rows
    <3>1. f \in {"organization", "department", "position", "special_rank"} /\ Placed(d, q, n)[f] \in {job.org, d, q, n}
      BY <2>1 DEF Placed
    <3>2. UserFields \subseteq Settable["user"]
      BY ReferencesWritten, UserFieldsAre, TablesAre DEF Settable
    <3> QED
      BY <3>1, <3>2, <1>5 DEF UserFields
  <2>2. ASSUME NEW x \in audit'
        PROVE /\ x[1] \in {u \in used' : Table[u] = "user"}
              /\ x[2] \in Settable["user"] \cup {"hash", "DELETE"}
              /\ x[3] \in Rows \cup Pinfls \cup {Hash(p) : p \in Pinfls} \cup {None}
    <3>1. CASE x \in audit
      BY <3>1, <1>2 DEF RegistryInv, DataInv, DataTyped, LogTyped
    <3>2. CASE x \in logs
      <4>1. PICK u \in Updated, f \in DOMAIN Placed(d, q, n) : x = <<u, f, Placed(d, q, n)[f]>>
        BY <3>2
      <4> QED
        BY <4>1, <2>1, <1>2, <1>5
    <3> QED
      BY <2>2, <3>1, <3>2, <1>2
  <2> QED
    BY <2>2 DEF LogTyped
<1> HIDE DEF logs
<1>9. DataTyped'
  <2>1. used' \in SUBSET Rows /\ \A r \in Rows : db'[r] # Gone => r \in used'
    BY <1>2, <1>3, <1>5, <1>6 DEF RegistryInv, DataInv, DataTyped, Exists
  <2>2. roles' \in [RowsOf["user"] -> SUBSET Roles]
    BY <1>2 DEF RegistryInv, DataInv, DataTyped, Roles
  <2>3. first' \in [Rows -> AnyRow \cup {Gone}]
    <3>1. db' \in [Rows -> AnyRow \cup {Gone}]
      BY <1>1 DEF RowsFit
    <3> QED
      BY <3>1, <1>2 DEF RegistryInv, DataInv, DataTyped
  <2> QED
    BY <2>1, <2>2, <2>3, <1>8 DEF RegistryInv, DataInv, DataTyped, Exists
<1>10. \A r \in used : r \in Rows /\ first'[r] = first[r] /\ r \notin Born(user) /\ r \notin Fresh(d, q, n)
  BY <1>2, <1>4, <1>6 DEF RegistryInv, DataInv, DataTyped
<1>11. AuditComplete'
  <2> SUFFICES ASSUME NEW u \in used', Table[u] = "user"
               PROVE  /\ db'[u] # Gone => \A f \in DOMAIN db'[u] :
                            db'[u][f] \in {None, first'[u][f]} \/ <<u, f, db'[u][f]>> \in audit'
                      /\ db'[u] # Gone \/ <<u, "DELETE", None>> \in audit'
    BY DEF AuditComplete, Exists
  <2>1. CASE u \in used
    <3>1. /\ Exists(u) => \A f \in DOMAIN db[u] : db[u][f] \in {None, first[u][f]} \/ <<u, f, db[u][f]>> \in audit
          /\ Exists(u) \/ <<u, "DELETE", None>> \in audit
      BY <2>1 DEF RegistryInv, DataInv, AuditComplete
    <3>2. CASE u \in Updated
      <4>1. DOMAIN db'[u] = DOMAIN db[u] /\ db[u] # Gone /\ db'[u] # Gone
        BY <3>2, <1>1, <1>3, <1>5 DEF UpdatedAs
      <4> QED
        BY <4>1, <3>1, <3>2, <1>2, <1>7, <1>10, <2>1 DEF Exists
    <3>3. CASE u \notin Updated
      BY <3>1, <3>3, <2>1, <1>2, <1>3, <1>10 DEF Exists
    <3> QED
      BY <3>2, <3>3
  <2>2. CASE u \notin used
    <3>1. u \in Born(user) /\ u \in Rows
      BY <2>2, <1>2, <1>5, <1>6
    <3>2. first'[u] = db'[u]
      BY <3>1, <2>2, <1>2
    <3>3. db'[u] # Gone
      <4>1. AddedAs(u, d, q, n, user)
        BY <3>1, ImportRows
      <4> QED
        BY <4>1, RowIsThere, TablesAre DEF AddedAs
    <3> QED
      BY <3>2, <3>3
  <2> QED
    BY <2>1, <2>2
<1>12. AttendanceOfOwner'
  <2> SUFFICES ASSUME NEW x \in In("attendance")'
               PROVE  LET u == db'[x].employee IN
                      \/ u = None \/ db'[x].hash \in {first'[u].hash, db'[u].hash}
                      \/ <<u, "hash", db'[x].hash>> \in audit'
    BY DEF AttendanceOfOwner
  <2>1. x \in Rows /\ Table[x] = "attendance" /\ db'[x] # Gone
    BY TablesAre DEF In, RowsOf, Exists
  <2>2. db'[x] = db[x] /\ x \in In("attendance")
    <3>1. x \notin saved
      BY <2>1, <1>5, <1>6
    <3> QED
      BY <3>1, <2>1, <1>3, InRows, TablesAre DEF Exists
  <2>3. CASE db[x].employee # None
    <3>1. PICK u \in In("user") : u = db[x].employee
      BY <2>2, <2>3, AttendanceFacts DEF RegistryInv, DataInv
    <3>2. u \in Rows /\ Table[u] = "user" /\ db[u] # Gone /\ u \in used
      BY <3>1, InRows, TablesAre DEF RegistryInv, DataInv, DataTyped, Exists
    <3>3. db'[u].hash = db[u].hash
      BY <3>2, <1>3, <1>10 DEF UpdatedAs
    <3>4. db[x].hash \in {first[u].hash, db[u].hash} \/ <<u, "hash", db[x].hash>> \in audit
      BY <3>1, <2>2, <2>3 DEF RegistryInv, DataInv, AttendanceOfOwner
    <3> QED
      BY <3>1, <3>2, <3>3, <3>4, <2>2, <1>2, <1>10
  <2> QED
    BY <2>2, <2>3
<1>13. ExitsKept'
  <2> SUFFICES ASSUME NEW x \in In("exit")'
               PROVE  db'[x].employee = first'[x].employee /\ db'[x].date = first'[x].date
    BY DEF ExitsKept
  <2>1. x \in Rows /\ Table[x] = "exit" /\ db'[x] # Gone
    BY TablesAre DEF In, RowsOf, Exists
  <2>2. x \notin saved
    BY <2>1, <1>5, <1>7 DEF Fresh
  <2>3. db'[x] = db[x] /\ x \in In("exit") /\ x \in used
    BY <2>1, <2>2, <1>3, InRows, TablesAre DEF Exists, RegistryInv, DataInv, DataTyped
  <2> QED
    BY <2>3, <1>10 DEF RegistryInv, DataInv, ExitsKept
<1>14. DataInv'
  <2>1. RowsFit(db)'
    BY <1>1 DEF RowsFit
  <2> QED
    BY <2>1, <1>9, <1>11, <1>12, <1>13 DEF DataInv
<1>15. RequestsOK(req, used, first, audit)'
  <2>1. /\ used \subseteq used' /\ audit \subseteq audit' /\ \A u \in used : first'[u] = first[u]
        /\ UNCHANGED req /\ RequestsOK(req, used, first, audit)
    BY <1>2, <1>10 DEF RegistryInv
  <2> QED
    BY <2>1, RequestsKept
<1> QED
  BY <1>14, <1>15 DEF RegistryInv

LEMMA ImportedOK ==
  ASSUME JobOK(job), job.step = "sheet"
  PROVE  /\ [job EXCEPT !.step = "imported"] =
              [step |-> "imported", org |-> job.org, department |-> job.department, position |-> job.position,
               special_rank |-> job.special_rank, present |-> job.present, update |-> job.update,
               alone |-> job.alone, since |-> job.since]
         /\ JobOK([job EXCEPT !.step = "imported"])
<1> DEFINE j == [step |-> "imported", org |-> job.org, department |-> job.department, position |-> job.position,
                 special_rank |-> job.special_rank, present |-> job.present, update |-> job.update,
                 alone |-> job.alone, since |-> job.since]
<1>1. ImportFields(job)
  BY DEF JobOK, NoJob
<1>2. job = [step |-> "sheet", org |-> job.org, department |-> job.department, position |-> job.position,
             special_rank |-> job.special_rank, present |-> job.present, update |-> job.update,
             alone |-> job.alone, since |-> job.since]
  BY <1>1 DEF ImportFields
<1>3. [job EXCEPT !.step = "imported"] = j
  BY <1>2
<1>4. ImportFields(j)
  BY <1>1 DEF ImportFields
<1> QED
  BY <1>3, <1>4 DEF JobOK

LEMMA ImportStep ==
  ASSUME RegistryInv, JobOK(job), RunImport
  PROVE  RegistryInv' /\ JobOK(job')
<1>1. /\ job.step = "sheet" /\ UNCHANGED <<req, spent, code>>
      /\ \/ Refused /\ job' = NoJob /\ UNCHANGED <<db, used, roles, audit, first>>
         \/ ~Refused /\ job' = [job EXCEPT !.step = "imported"] /\ UNCHANGED <<db, used, roles, audit, first>>
         \/ /\ ~Refused /\ job' = [job EXCEPT !.step = "imported"]
            /\ \E d, q, n, user : Imports(d, q, n, user)
  BY ImportedAs
<1>2. JobOK(job')
  BY <1>1, ImportedOK DEF JobOK
<1>3. CASE UNCHANGED <<db, used, roles, audit, first>>
  <2>1. spent' \in Nat
    BY <1>1 DEF RegistryInv, DataInv, DataTyped
  <2> QED
    BY <2>1, <1>1, <1>2, <1>3, DataSame
<1>4. CASE ~Refused /\ \E d, q, n, user : Imports(d, q, n, user)
  <2>1. PICK d, q, n, user : Imports(d, q, n, user)
    BY <1>4
  <2>2. RegistryInv'
    BY <2>1, <1>1, <1>4, ImportData
  <2> QED
    BY <2>2, <1>2
<1> QED
  BY <1>1, <1>3, <1>4

LEMMA CommandSteps ==
  ASSUME RegistryInv, JobOK(job), LoadingNext
  PROVE  RegistryInv' /\ JobOK(job')
BY LoadPlanSteps, ClearStep, CreateStep, StartImportStep, ImportStep DEF LoadingNext

------------------------------------------------------------------------------
(* Every step keeps the data, the requests and the command in order *)

CodesTyped == code = [r \in Rows |-> code[r]]

CoreInv == RegistryInv /\ JobOK(job) /\ JobAlone /\ CodesTyped

LEMMA CoreInit ==
  ASSUME Init
  PROVE  CoreInv
<1>1. /\ db = Initial /\ used = {r \in Rows : Initial[r] # Gone} /\ roles = InitialRoles /\ audit = {}
      /\ first = Initial /\ req = [c \in Clients |-> Idle] /\ spent = 0 /\ code = InitialCode /\ job = NoJob
  BY DEF Init, RegistryInit, LoadingInit
<1>2. \A r \in Rows : db[r] # Gone => WellFormed(Table[r], db[r]) /\ FitsIn(db, r, db[r])
  BY <1>1, InitialAssumption
<1>3. db \in [Rows -> AnyRow \cup {Gone}]
  <2>1. \A r \in Rows : db[r] \in AnyRow \cup {Gone}
    BY <1>2, RowIsThere, TableOf
  <2> QED
    BY <2>1, <1>1, InitialAssumption
<1>4. RowsFit(db)
  BY <1>2, <1>3 DEF RowsFit
<1>5. DataTyped
  <2>1. used \in SUBSET Rows /\ \A r \in Rows : Exists(r) => r \in used
    BY <1>1 DEF Exists
  <2> QED
    BY <2>1, <1>1, <1>3, RolesAssumption DEF DataTyped, LogTyped
<1>6. AuditComplete
  BY <1>1 DEF AuditComplete, Exists
<1>7. AttendanceOfOwner
  <2> SUFFICES ASSUME NEW x \in In("attendance"), db[x].employee # None
               PROVE  db[x].hash = db[db[x].employee].hash
    BY <1>1 DEF AttendanceOfOwner
  <2>1. x \in Rows /\ Table[x] = "attendance" /\ db[x] # Gone
    BY InRows, TablesAre DEF Exists
  <2> QED
    BY <2>1, <1>1, InitialAssumption
<1>8. ExitsKept
  BY <1>1 DEF ExitsKept
<1>9. RequestsOK(req, used, first, audit)
  BY <1>1, IdleOK DEF RequestsOK
<1>10. JobOK(job) /\ JobAlone /\ CodesTyped
  BY <1>1, FilesAssumption DEF JobOK, JobAlone, CodesTyped, NoJob
<1> QED
  BY <1>4, <1>5, <1>6, <1>7, <1>8, <1>9, <1>10 DEF CoreInv, RegistryInv, DataInv

\* A request that begins is counted, and one that goes on was there.
LEMMA RequestCounted ==
  ASSUME NEW c \in Clients, spent \in Nat,
         \/ Regions(c) \/ Districts(c) \/ Mahallas(c) \/ Organizations(c) \/ Departments(c)
         \/ Positions(c) \/ SpecialRanks(c) \/ TransportTypes(c) \/ Transports(c) \/ Users(c)
         \/ DailyOfficers(c)
         \/ Report(c) \/ RecordAttendance(c)
         \/ Audit(c) \/ Write(c) \/ ReadRoles(c) \/ SetRoles(c) \/ Purge(c) \/ Dies(c)
  PROVE  spent' = spent + 1 \/ (spent' = spent /\ ~Alone)
<1>1. ASSUME NEW t, Requests(c, t) PROVE spent' = spent + 1
  BY <1>1 DEF Requests, Post, Edit, Delete, Starts
<1>2. CASE \/ Regions(c) \/ Districts(c) \/ Mahallas(c) \/ Organizations(c) \/ Departments(c)
           \/ Positions(c) \/ SpecialRanks(c) \/ TransportTypes(c) \/ Transports(c) \/ Users(c)
           \/ DailyOfficers(c)
  BY <1>1, <1>2 DEF Regions, Districts, Mahallas, Organizations, Departments, Positions, SpecialRanks, TransportTypes,
                    Transports, Users, DailyOfficers
<1>3. CASE Report(c)
  BY <1>3 DEF Report, Starts
<1>4. CASE RecordAttendance(c) \/ Purge(c) \/ SetRoles(c)
  BY <1>4 DEF RecordAttendance, Purge, SetRoles, Alone, Idle
<1>5. CASE Audit(c) \/ Write(c) \/ ReadRoles(c) \/ Dies(c)
  BY <1>5 DEF Audit, Write, ReadRoles, Dies, Alone, Idle
<1> QED
  BY <1>2, <1>3, <1>4, <1>5

\* A command begins, ends, or goes on as it was.
LEMMA CommandCounted ==
  ASSUME JobOK(job), LoadingNext
  PROVE  /\ UNCHANGED req
         /\ \/ spent' = spent + 1 /\ job'.alone = Alone /\ job'.since = spent + 1
            \/ spent' = spent /\ job' = NoJob
            \/ spent' = spent /\ job.step # "none" /\ job'.alone = job.alone /\ job'.since = job.since
<1>1. CASE StartLoad
  BY <1>1 DEF StartLoad, StartJob
<1>2. CASE StartImport
  BY <1>2 DEF StartImport, StartJob
<1>3. CASE JobDies
  BY <1>3 DEF JobDies, registryVars
<1>4. CASE ReadParents \/ NextTable
  BY <1>4 DEF ReadParents, NextTable, registryVars
<1>5. CASE ClearTable
  <2>1. job = [step |-> "clear", todo |-> job.todo, plan |-> job.plan, alone |-> job.alone, since |-> job.since]
    BY <1>5 DEF ClearTable, JobOK, NoJob
  <2>2. [job EXCEPT !.step = "parents"].alone = job.alone /\ [job EXCEPT !.step = "parents"].since = job.since
    BY <2>1
  <2> QED
    BY <2>2, <1>5 DEF ClearTable
<1>6. CASE CreateRow
  <2>1. /\ job.step = "create" /\ job.features # << >> /\ UNCHANGED <<req, spent>>
        /\ job' = NoJob \/ job' = [job EXCEPT !.features = Tail(@)]
    BY <1>6, CreatedAs DEF Creates
  <2> QED
    BY <2>1, CreateFields
<1>7. CASE RunImport
  <2>1. /\ job.step = "sheet" /\ UNCHANGED <<req, spent>>
        /\ job' = NoJob \/ job' = [job EXCEPT !.step = "imported"]
    BY <1>7, ImportedAs
  <2> QED
    BY <2>1, ImportedOK
<1> QED
  BY <1>1, <1>2, <1>3, <1>4, <1>5, <1>6, <1>7 DEF LoadingNext

LEMMA CodesStep ==
  ASSUME CodesTyped, LoadingNext
  PROVE  CodesTyped'
<1>1. code' = code \/ \E r, x : code' = [code EXCEPT ![r] = x]
  BY DEF LoadingNext, StartLoad, StartImport, StartJob, ClearTable, ReadParents, CreateRow, NextTable, RunImport, JobDies
<1> QED
  BY <1>1 DEF CodesTyped

LEMMA CoreStep ==
  ASSUME CoreInv, [Next]_vars
  PROVE  CoreInv'
<1>0. spent \in Nat /\ (job.step # "none" => job.since \in Nat)
  BY DEF CoreInv, RegistryInv, DataInv, DataTyped, JobOK, LoadFields, ImportFields, NoJob
<1>1. CASE RegistryNext /\ UNCHANGED <<loadingVars, board>>
  <2>1. RegistryInv'
    BY <1>1, RequestSteps DEF RegistryNext, CoreInv
  <2>2. spent' = spent + 1 \/ (spent' = spent /\ ~Alone)
    BY <1>0, <1>1, RequestCounted DEF RegistryNext
  <2>3. UNCHANGED <<code, job>>
    BY <1>1 DEF loadingVars
  <2>4. JobAlone'
    BY <2>2, <2>3, <1>0 DEF CoreInv, JobAlone
  <2> QED
    BY <2>1, <2>3, <2>4 DEF CoreInv, CodesTyped
<1>2. CASE LoadingNext /\ UNCHANGED board
  <2>1. RegistryInv' /\ JobOK(job')
    BY <1>2, CommandSteps DEF CoreInv
  <2>2. CodesTyped'
    BY <1>2, CodesStep DEF CoreInv
  <2>3. Alone' <=> Alone
    BY <1>2, CommandCounted DEF CoreInv, Alone
  <2>4. JobAlone'
    <3>1. CASE job' = NoJob
      BY <3>1 DEF JobAlone, NoJob
    <3>2. CASE spent' = spent + 1 /\ job'.alone = Alone /\ job'.since = spent + 1
      BY <3>2, <2>3, <1>0 DEF JobAlone
    <3>3. CASE spent' = spent /\ job.step # "none" /\ job'.alone = job.alone /\ job'.since = job.since
      BY <3>3, <2>3 DEF CoreInv, JobAlone
    <3> QED
      BY <3>1, <3>2, <3>3, <1>2, CommandCounted DEF CoreInv
  <2> QED
    BY <2>1, <2>2, <2>4 DEF CoreInv
<1>3. CASE \/ \E u \in In("user") : RecordExit(u)
           \/ \E x \in In("exit") : RecordReturn(x)
  <2>1. RegistryInv'
    BY <1>3, RecordExitStep, RecordReturnStep DEF CoreInv
  <2>2. UNCHANGED <<code, job>> /\ spent' = spent + 1
    BY <1>3 DEF RecordExit, RecordReturn, loadingVars
  <2>3. JobAlone'
    BY <2>2, <1>0 DEF CoreInv, JobAlone
  <2> QED
    BY <2>1, <2>2, <2>3 DEF CoreInv, CodesTyped
<1>4. CASE \E v \in {Root} \cup {Viewer(u) : u \in In("user")} : OpenBoard(v)
  <2>1. UNCHANGED <<db, used, roles, audit, first, req>> /\ spent' = spent + 1 /\ UNCHANGED <<code, job>>
    BY <1>4 DEF OpenBoard, loadingVars
  <2>2. RegistryInv'
    BY <2>1, <1>0, DataSame DEF CoreInv
  <2>3. JobAlone'
    BY <2>1, <1>0 DEF CoreInv, JobAlone
  <2> QED
    BY <2>1, <2>2, <2>3 DEF CoreInv, CodesTyped
<1>5. CASE ReadCrews \/ CountSection \/ ReadOfficers \/ UNCHANGED vars
  <2>1. UNCHANGED registryVars /\ UNCHANGED loadingVars
    BY <1>5 DEF ReadCrews, CountSection, ReadOfficers, vars
  <2>2. RegistryInv'
    BY <2>1, <1>0, DataSame DEF CoreInv, registryVars
  <2>3. JobAlone'
    BY <2>1 DEF CoreInv, JobAlone, Alone, registryVars, loadingVars
  <2> QED
    BY <2>1, <2>2, <2>3 DEF CoreInv, CodesTyped, loadingVars
<1> QED
  BY <1>1, <1>2, <1>3, <1>4, <1>5 DEF Next

------------------------------------------------------------------------------
(* What goes, and what stays *)

\* The row goes with what a request has collected, and the users among that are logged.
Purged(c, r) ==
  /\ req[c].step = "purge" /\ req'[c] = Idle /\ r \in DOMAIN req[c].seen
  /\ \A x \in DOMAIN req[c].seen : Table[x] = "user" => <<x, "DELETE", None>> \in audit'

\* Rows that were inserted, what they were inserted with and the log are never forgotten; a row goes
\* with its table or with what was collected.
Grown ==
  /\ used \subseteq used' /\ audit \subseteq audit' /\ \A r \in used : first'[r] = first[r]
  /\ \A r \in Rows : Exists(r) /\ db'[r] = Gone =>
       \/ job.step = "clear" /\ Table[r] = Head(job.todo)
       \/ \E c \in Clients : Purged(c, r)

\* A row is written: one that was not there before, or one that stays.
LEMMA WrittenGrown ==
  ASSUME DataInv, NEW r \in Rows, NEW new, db' = [db EXCEPT ![r] = new], audit \subseteq audit',
         \/ new # Gone /\ UNCHANGED <<used, first>>
         \/ r \notin used /\ used' = used \cup {r} /\ first' = [first EXCEPT ![r] = new]
  PROVE  Grown
<1>1. \A o \in Rows : db'[o] = IF o = r THEN new ELSE db[o]
  BY DEF DataInv, RowsFit
<1>2. used \subseteq used' /\ \A o \in used : first'[o] = first[o]
  BY DEF DataInv, DataTyped
<1>3. Exists(r) => new # Gone
  BY DEF DataInv, DataTyped
<1> QED
  BY <1>1, <1>2, <1>3 DEF Grown, Exists

LEMMA SameGrown ==
  ASSUME UNCHANGED <<db, used, first>>, audit \subseteq audit'
  PROVE  Grown
BY DEF Grown, Exists

LEMMA RowStays ==
  ASSUME RowsFit(db), NEW gone \in SUBSET Rows, NEW r \in Rows, Exists(r), Without(gone)[r] = Gone
  PROVE  r \in gone
<1>1. SUFFICES ASSUME r \notin gone PROVE FALSE
  OBVIOUS
<1>2. db[r] # Gone
  BY DEF Exists
<1>3. /\ DOMAIN Without(gone)[r] = Columns[Table[r]]
      /\ Without(gone)[r] = [f \in Columns[Table[r]] |-> Without(gone)[r][f]]
      /\ \A x \in ReferencesOf[Table[r]] :
           Without(gone)[r][x.field] =
             IF x.onDelete = "SET_NULL" /\ db[r][x.field] \in gone THEN None ELSE db[r][x.field]
      /\ \A f \in Columns[Table[r]] : f \in {"pinfl", "hash", "date", "status", "end", "returned"}
           => Without(gone)[r][f] = db[r][f]
      /\ \A f \in Columns[Table[r]] : Without(gone)[r][f] \in {None, db[r][f]}
  BY <1>1, <1>2, RowLeft
<1>4. WellFormed(Table[r], db[r])
  BY DEF RowsFit, Exists
<1>5. db[r] \in [Columns[Table[r]] -> Values]
  BY <1>4, RowIsThere, TableOf
<1>6. Without(gone)[r] \in [Columns[Table[r]] -> Values]
  BY <1>5, <1>3 DEF Values
<1> QED
  BY <1>6, TableOf, RowsAssumption

LEMMA RequestsGrown ==
  ASSUME RegistryInv, NEW c \in Clients,
         \/ Regions(c) \/ Districts(c) \/ Mahallas(c) \/ Organizations(c) \/ Departments(c)
         \/ Positions(c) \/ SpecialRanks(c) \/ TransportTypes(c) \/ Transports(c) \/ Users(c)
         \/ DailyOfficers(c)
         \/ Report(c) \/ RecordAttendance(c)
         \/ Audit(c) \/ Write(c) \/ ReadRoles(c) \/ SetRoles(c) \/ Purge(c) \/ Dies(c)
  PROVE  Grown
<1>0. DataInv
  BY DEF RegistryInv
<1>1. ASSUME NEW t \in Administered, Post(c, t) PROVE Grown
  <2> DEFINE r == CHOOSE x \in New(t) : TRUE
  <2>1. PICK new : /\ db' = [db EXCEPT ![r] = new] /\ used' = used \cup {r} /\ first' = [first EXCEPT ![r] = new]
                   /\ New(t) # {} /\ UNCHANGED audit
    BY <1>1 DEF Post
  <2>2. r \in Rows /\ r \notin used
    <3>1. r \in New(t)
      BY <2>1
    <3> QED
      BY <3>1, ColumnsAdministered, RowsAreOf DEF New
  <2> HIDE DEF r
  <2> QED
    BY <2>1, <2>2, <1>0, WrittenGrown
<1>2. ASSUME NEW t, Edit(c, t) \/ Delete(c, t) PROVE Grown
  BY <1>2, SameGrown DEF Edit, Delete
<1>3. CASE \/ Regions(c) \/ Districts(c) \/ Mahallas(c) \/ Organizations(c) \/ Departments(c)
           \/ Positions(c) \/ SpecialRanks(c) \/ TransportTypes(c) \/ Transports(c) \/ Users(c)
           \/ DailyOfficers(c)
  <2>1. \E t \in Administered : Requests(c, t)
    BY <1>3 DEF Regions, Districts, Mahallas, Organizations, Departments, Positions, SpecialRanks, TransportTypes,
                Transports, Users, DailyOfficers, Administered
  <2> QED
    BY <1>1, <1>2, <2>1 DEF Requests
<1>4. CASE Report(c) \/ ReadRoles(c) \/ SetRoles(c) \/ Dies(c)
  BY <1>4, SameGrown DEF Report, ReadRoles, SetRoles, Dies
<1>5. CASE Audit(c)
  <2>1. UNCHANGED <<db, used, first>> /\ audit \subseteq audit'
    BY <1>5 DEF Audit
  <2> QED
    BY <2>1, SameGrown
<1>6. CASE RecordAttendance(c)
  <2> DEFINE x == CHOOSE y \in New("attendance") : TRUE
  <2>1. /\ UNCHANGED audit
        /\ \/ UNCHANGED <<db, used, first>>
           \/ New("attendance") # {} /\ \E new : /\ db' = [db EXCEPT ![x] = new] /\ used' = used \cup {x}
                                                  /\ first' = [first EXCEPT ![x] = db'[x]]
    BY <1>6 DEF RecordAttendance
  <2>2. New("attendance") # {} => x \in Rows /\ x \notin used
    BY TablesAre, RowsAreOf DEF New
  <2> HIDE DEF x
  <2>3. CASE New("attendance") # {} /\ \E new : /\ db' = [db EXCEPT ![x] = new] /\ used' = used \cup {x}
                                                 /\ first' = [first EXCEPT ![x] = db'[x]]
    <3>1. PICK new : db' = [db EXCEPT ![x] = new] /\ used' = used \cup {x} /\ first' = [first EXCEPT ![x] = db'[x]]
      BY <2>3
    <3>2. db'[x] = new
      BY <2>2, <2>3, <3>1, <1>0 DEF DataInv, RowsFit
    <3> QED
      BY <2>1, <2>2, <2>3, <3>1, <3>2, <1>0, WrittenGrown
  <2> QED
    BY <2>1, <2>3, SameGrown
<1>7. CASE Write(c)
  <2>1. /\ UNCHANGED <<used, first, audit>> /\ req[c].step = "write"
        /\ db' = db \/ db' = [db EXCEPT ![req[c].row] = req[c].new]
    BY <1>7 DEF Write
  <2>2. req[c].row \in Rows /\ req[c].new # Gone
    <3>1. /\ req[c].row \in used /\ Table[req[c].row] \in Administered /\ WellFormed(Table[req[c].row], req[c].new)
      BY <2>1, SavingOf DEF RegistryInv
    <3> QED
      BY <3>1, RowIsThere, ColumnsAdministered, <1>0 DEF DataInv, DataTyped
  <2> QED
    BY <2>1, <2>2, <1>0, WrittenGrown, SameGrown
<1>8. CASE Purge(c)
  <2> DEFINE gone == DOMAIN req[c].seen
  <2>1. /\ UNCHANGED <<used, first>> /\ req[c].step = "purge" /\ req' = [req EXCEPT ![c] = Idle]
        /\ \/ UNCHANGED <<db, audit>>
           \/ /\ db' = Without(gone)
              /\ audit' = audit \cup {<<x, "DELETE", None>> : x \in {y \in gone : Table[y] = "user"}}
    BY <1>8 DEF Purge, Done
  <2>2. CASE UNCHANGED <<db, audit>>
    BY <2>1, <2>2, SameGrown
  <2>3. CASE /\ db' = Without(gone)
             /\ audit' = audit \cup {<<x, "DELETE", None>> : x \in {y \in gone : Table[y] = "user"}}
    <3>1. req'[c] = Idle
      BY <2>1 DEF RegistryInv, RequestsOK
    <3>2. gone \subseteq Rows
      <4>1. RequestOK(req[c], used, first, audit)
        BY DEF RegistryInv, RequestsOK
      <4> QED
        BY <4>1, <2>1, <1>0 DEF RequestOK, Idle, DataInv, DataTyped
    <3>3. \A x \in gone : Table[x] = "user" => <<x, "DELETE", None>> \in audit'
      BY <2>3
    <3> HIDE DEF gone
    <3>4. \A r \in Rows : Exists(r) /\ db'[r] = Gone => r \in gone
      BY <3>2, <2>3, <1>0, RowStays DEF DataInv
    <3>5. audit \subseteq audit'
      BY <2>3
    <3> QED
      BY <2>1, <3>1, <3>3, <3>4, <3>5 DEF Grown, Purged, gone
  <2> QED
    BY <2>1, <2>2, <2>3
<1> QED
  BY <1>3, <1>4, <1>5, <1>6, <1>7, <1>8

\* The same of every step.
LEMMA StepGrown ==
  ASSUME CoreInv, [Next]_vars
  PROVE  Grown
<1>0. RegistryInv /\ DataInv /\ JobOK(job)
  BY DEF CoreInv, RegistryInv
<1>1. CASE RegistryNext
  BY <1>0, <1>1, RequestsGrown DEF RegistryNext
<1>2. CASE LoadingNext
  <2>1. CASE StartLoad \/ StartImport \/ ReadParents \/ NextTable \/ JobDies
    BY <2>1, SameGrown DEF StartLoad, StartImport, StartJob, ReadParents, NextTable, JobDies, registryVars
  <2>2. CASE ClearTable
    <3> DEFINE t == Head(job.todo)
    <3>1. job.step = "clear" /\ db' = Without(In(t)) /\ UNCHANGED <<used, first, audit>>
      BY <2>2 DEF ClearTable
    <3>2. t \in LoadedTables
      <4>1. job.plan \in Plans /\ job.todo \in Remainders(job.plan) /\ job.todo # << >>
        BY <3>1, <1>0 DEF JobOK, LoadFields, NoJob
      <4> QED
        BY <4>1, RemaindersAre
    <3> HIDE DEF t
    <3>3. In(t) \subseteq Rows /\ \A r \in In(t) : Table[r] = t
      BY <3>2, Loaded, InRows
    <3>4. \A r \in Rows : Exists(r) /\ db'[r] = Gone => Table[r] = t
      BY <3>1, <3>3, <1>0, RowStays DEF DataInv
    <3> QED
      BY <3>1, <3>4 DEF Grown, t
  <2>3. CASE CreateRow
    <3> DEFINE t == Head(job.todo)
               r == CHOOSE x \in New(t) : TRUE
    <3>1. /\ UNCHANGED audit
          /\ \/ UNCHANGED <<db, used, first>>
             \/ New(t) # {} /\ \E new : /\ db' = [db EXCEPT ![r] = new] /\ first' = [first EXCEPT ![r] = new]
                                        /\ used' = used \cup {r}
      BY <2>3, CreatedAs DEF Creates
    <3>2. t \in LoadedTables
      BY <2>3, <1>0, CreatedAs, CreateFields
    <3>3. New(t) # {} => r \in Rows /\ r \notin used
      BY <3>2, Loaded, RowsAreOf DEF New
    <3> HIDE DEF r
    <3> QED
      BY <3>1, <3>3, <1>0, WrittenGrown, SameGrown
  <2>4. CASE RunImport
    <3>1. \/ UNCHANGED <<db, used, first, audit>>
          \/ job.step = "sheet" /\ ~Refused /\ \E d, q, n, user : Imports(d, q, n, user)
      BY <2>4, ImportedAs
    <3>2. CASE job.step = "sheet" /\ ~Refused /\ \E d, q, n, user : Imports(d, q, n, user)
      <4>1. PICK d, q, n, user : Imports(d, q, n, user)
        BY <3>2
      <4>2. \A r \in Rows : db[r] # Gone => db'[r] # Gone
        BY <4>1, <3>2, <1>0, ImportedRowsFit
      <4>3. /\ used \subseteq used' /\ audit \subseteq audit'
            /\ first' = [r \in Rows |-> IF r \in used THEN first[r] ELSE db'[r]]
        BY <4>1 DEF Imports
      <4>4. \A r \in used : first'[r] = first[r]
        BY <4>3, <1>0 DEF DataInv, DataTyped
      <4> QED
        BY <4>2, <4>3, <4>4 DEF Grown, Exists
    <3> QED
      BY <3>1, <3>2, SameGrown
  <2> QED
    BY <1>2, <2>1, <2>2, <2>3, <2>4 DEF LoadingNext
<1>3. CASE \E u \in In("user") : RecordExit(u)
  <2>0. PICK x \in RowsOf["exit"] \ used :
          \E new : db' = [db EXCEPT ![x] = new] /\ used' = used \cup {x} /\ first' = [first EXCEPT ![x] = db'[x]]
    BY <1>3 DEF RecordExit
  <2>1. PICK new : db' = [db EXCEPT ![x] = new] /\ used' = used \cup {x} /\ first' = [first EXCEPT ![x] = db'[x]]
    BY <2>0
  <2>2. x \in Rows /\ db'[x] = new /\ UNCHANGED audit
    BY <2>1, <1>0, <1>3, TablesAre, RowsAreOf DEF DataInv, RowsFit, RecordExit
  <2> QED
    BY <2>1, <2>2, <1>0, WrittenGrown
<1>4. CASE \E x \in In("exit") : RecordReturn(x)
  <2>1. PICK x \in In("exit") : RecordReturn(x)
    BY <1>4
  <2>2. x \in Rows /\ Exists(x) /\ UNCHANGED <<used, first, audit>>
    BY <2>1, InRows, TablesAre DEF RecordReturn
  <2>3. RegistryInv'
    BY <2>1, <1>0, RecordReturnStep
  <2>4. db' = [db EXCEPT ![x] = [db[x] EXCEPT !.returned = TRUE]]
    BY <2>1, <2>2, <1>0 DEF RecordReturn, DataInv, RowsFit
  <2>5. [db[x] EXCEPT !.returned = TRUE] # Gone
    <3>1. [db[x] EXCEPT !.returned = TRUE] \in [Columns["exit"] -> Values]
      <4>1. db[x] \in [Columns["exit"] -> Values]
        <5>1. Table[x] = "exit" /\ WellFormed(Table[x], db[x])
          BY <2>1, <2>2, <1>0, InRows, TablesAre DEF DataInv, RowsFit, Exists
        <5> QED
          BY <5>1, RowIsThere, TablesAre
      <4>2. TRUE \in Values
        BY DEF Values
      <4> QED
        BY <4>1, <4>2
    <3> QED
      BY <3>1, TablesAre, RowsAssumption
  <2> QED
    BY <2>2, <2>4, <2>5, <1>0, WrittenGrown
<1>5. CASE \/ \E v \in {Root} \cup {Viewer(u) : u \in In("user")} : OpenBoard(v)
           \/ ReadCrews \/ CountSection \/ ReadOfficers \/ UNCHANGED vars
  BY <1>5, SameGrown DEF OpenBoard, ReadCrews, CountSection, ReadOfficers, registryVars, vars
<1> QED
  BY <1>1, <1>2, <1>3, <1>4, <1>5 DEF Next

\* A row that goes belongs to what it goes with.
LEMMA GoesWithOwner ==
  ASSUME CoreInv, [Next]_vars, NEW r \in Rows, Exists(r), ~Exists(r)'
  PROVE  \/ job.step = "clear" /\ Table[r] = Head(job.todo)
         \/ \E c \in Clients :
              /\ req[c].step = "purge" /\ req'[c] = Idle
              /\ \/ r = req[c].row
                 \/ \E o \in DOMAIN req[c].seen :
                      /\ Table[o] \in Owners(Table[r])
                      /\ \E f \in DOMAIN req[c].seen[r] : req[c].seen[r][f] = o
<1>1. \/ job.step = "clear" /\ Table[r] = Head(job.todo)
      \/ \E c \in Clients : Purged(c, r)
  BY StepGrown DEF Grown, Exists
<1>2. ASSUME NEW c \in Clients, Purged(c, r), r # req[c].row
      PROVE  \E o \in DOMAIN req[c].seen :
               /\ Table[o] \in Owners(Table[r])
               /\ \E f \in DOMAIN req[c].seen[r] : req[c].seen[r][f] = o
  <2>1. Collected(req[c], first)
    BY <1>2 DEF CoreInv, RegistryInv, RequestsOK, RequestOK, Purged, Idle
  <2>2. PICK y \in ReferencesOf[Table[r]] :
          /\ y.onDelete = "CASCADE" /\ y.field \in DOMAIN req[c].seen[r]
          /\ req[c].seen[r][y.field] \in DOMAIN req[c].seen /\ Table[req[c].seen[r][y.field]] = y.to
    BY <2>1, <1>2 DEF Collected, Purged
  <2>3. y \in References /\ y.of = Table[r]
    BY TableOf DEF ReferencesOf
  <2>4. y.to \in Owners(Table[r])
    BY <2>2, <2>3, OwnersAre
  <2> QED
    BY <2>2, <2>4
<1> QED
  BY <1>1, <1>2 DEF Purged

\* The data, the requests and the command stay in order, in every behaviour.
THEOREM CoreCorrect == Spec => []CoreInv
<1>1. Init => CoreInv
  BY CoreInit
<1>2. CoreInv /\ [Next]_vars => CoreInv'
  BY CoreStep
<1> QED
  BY <1>1, <1>2, PTL DEF Spec

\* A deletion takes the row asked for and what belonged to it when it was collected; a load takes
\* the table that it writes anew.
THEOREM GoesOnlyWithOwnerCorrect == Spec => GoesOnlyWithOwner
<1>1. CoreInv /\ [Next]_vars =>
        [\A r \in Rows : Exists(r) /\ ~Exists(r)' =>
           \/ job.step = "clear" /\ Table[r] = Head(job.todo)
           \/ \E c \in Clients :
                /\ req[c].step = "purge" /\ req'[c] = Idle
                /\ \/ r = req[c].row
                   \/ \E o \in DOMAIN req[c].seen :
                        /\ Table[o] \in Owners(Table[r])
                        /\ \E f \in DOMAIN req[c].seen[r] : req[c].seen[r][f] = o]_<<registryVars, loadingVars>>
  BY GoesWithOwner
<1> QED
  BY <1>1, CoreCorrect, PTL DEF Spec, GoesOnlyWithOwner

------------------------------------------------------------------------------
(* The administrators' dashboard *)

\* Whoever was out when the dashboard was opened still has the exit, or was deleted.
OutKnown(u, date) ==
  \/ <<u, "DELETE", None>> \in audit
  \/ \E x \in In("exit") : db[x].employee = u /\ db[x].date = date

RowOK(row, out, log) ==
  /\ row.left = row.crew \cap out
  /\ Cardinality(row.left) <= row.incidents \/ \E u \in row.left : <<u, "DELETE", None>> \in log

BoardInv ==
  \/ board = Closed
  \/ board.step \in {"crews", "count"} /\ \A u \in board.out : OutKnown(u, board.date)
  \/ board.step = "sent"

RowsInv ==
  /\ board.step \in {"closed", "crews", "count", "sent"}
  /\ board.step \in {"count", "sent"} => \A row \in board.rows : RowOK(row, board.out, audit)
  /\ board.step = "count" =>
       board = [step |-> "count", viewer |-> board.viewer, date |-> board.date, out |-> board.out, rows |-> board.rows,
                todo |-> board.todo]
  /\ board.step = "sent" => \A officer \in board.officers : officer = <<officer[1], officer[1] \in board.out>>

\* The exits of a day are as many, at least, as those whom they show out.
LEMMA ExitsCounted ==
  ASSUME NEW crew, NEW out, NEW date, \A u \in crew \cap out : \E x \in In("exit") : db[x].employee = u /\ db[x].date = date
  PROVE  Cardinality(crew \cap out) <= Cardinality(Incidents(crew, date))
<1> DEFINE left == crew \cap out
           exits == Incidents(crew, date)
           exit == [u \in left |-> CHOOSE x \in exits : db[x].employee = u]
<1>1. IsFiniteSet(exits)
  <2>1. exits \subseteq Rows
    BY InRows, TablesAre DEF Incidents
  <2> QED
    BY <2>1, RowsAssumption, FS_Subset
<1>2. \A u \in left : \E x \in exits : db[x].employee = u
  BY DEF Incidents
<1> HIDE DEF left, exits
<1>3. \A u \in left : exit[u] \in exits /\ db[exit[u]].employee = u
  BY <1>2
<1>4. exit \in Injection(left, exits)
  <2>1. exit \in [left -> exits]
    BY <1>3
  <2>2. \A u, v \in left : exit[u] = exit[v] => u = v
    BY <1>3
  <2> HIDE DEF exit
  <2> QED
    BY <2>1, <2>2 DEF Injection, IsInjective
<1> HIDE DEF exit
<1>5. Cardinality(left) <= Cardinality(exits)
  BY <1>1, <1>4, FS_Injection
<1> QED
  BY <1>5 DEF left, exits

\* An exit that goes goes with its employee.
LEMMA ExitGoes ==
  ASSUME CoreInv, CoreInv', Grown, NEW u, NEW date, OutKnown(u, date)
  PROVE  OutKnown(u, date)'
<1>1. CASE <<u, "DELETE", None>> \in audit
  BY <1>1 DEF OutKnown, Grown
<1>2. CASE \E x \in In("exit") : db[x].employee = u /\ db[x].date = date
  <2>1. PICK x \in In("exit") : db[x].employee = u /\ db[x].date = date
    BY <1>2
  <2>2. x \in Rows /\ Table[x] = "exit" /\ Exists(x) /\ x \in used
    BY InRows, TablesAre DEF CoreInv, RegistryInv, DataInv, DataTyped
  <2>3. first[x].employee = u /\ first[x].date = date /\ first'[x] = first[x]
    BY <2>1, <2>2 DEF CoreInv, RegistryInv, DataInv, ExitsKept, Grown
  <2>4. CASE db'[x] # Gone
    <3>1. x \in In("exit")'
      BY <2>2, <2>4, TablesAre DEF In, RowsOf, Exists
    <3>2. db'[x].employee = u /\ db'[x].date = date
      BY <3>1, <2>3 DEF CoreInv, RegistryInv, DataInv, ExitsKept
    <3> QED
      BY <3>1, <3>2 DEF OutKnown
  <2>5. CASE db'[x] = Gone
    <3>1. ~(job.step = "clear" /\ Table[x] = Head(job.todo))
      <4>1. job.step = "clear" => job.plan \in Plans /\ job.todo \in Remainders(job.plan) /\ job.todo # << >>
        BY DEF CoreInv, JobOK, LoadFields, NoJob
      <4>2. job.step = "clear" => Head(job.todo) \in LoadedTables
        BY <4>1, RemaindersAre
      <4> QED
        BY <4>2, <2>2 DEF LoadedTables
    <3>2. PICK c \in Clients : Purged(c, x)
      BY <3>1, <2>2, <2>5 DEF Grown
    <3>3. Collected(req[c], first)
      BY <3>2 DEF CoreInv, RegistryInv, RequestsOK, RequestOK, Purged, Idle
    <3>4. x # req[c].row
      BY <3>3, <2>2 DEF Collected, Administered
    <3>5. PICK y \in ReferencesOf[Table[x]] :
            /\ y.onDelete = "CASCADE" /\ req[c].seen[x][y.field] \in DOMAIN req[c].seen
            /\ Table[req[c].seen[x][y.field]] = y.to
      BY <3>2, <3>3, <3>4 DEF Collected, Purged
    <3>6. y.field = "employee" /\ y.to = "user"
      BY <3>5, <2>2, ReferencesWritten DEF ExitReferences, Refers
    <3>7. req[c].seen[x].employee = u
      BY <3>2, <3>3, <2>2, <2>3 DEF Collected, Purged
    <3> QED
      BY <3>2, <3>5, <3>6, <3>7 DEF Purged, OutKnown
  <2> QED
    BY <2>4, <2>5
<1> QED
  BY <1>1, <1>2 DEF OutKnown

LEMMA RowsKept ==
  ASSUME NEW row, NEW out, NEW log, NEW log2, log \subseteq log2, RowOK(row, out, log)
  PROVE  RowOK(row, out, log2)
BY DEF RowOK

LEMMA BoardInit ==
  ASSUME Init
  PROVE  BoardInv /\ RowsInv
BY DEF Init, BoardInv, RowsInv, Closed

LEMMA BoardStep ==
  ASSUME CoreInv, CoreInv', BoardInv, RowsInv, [Next]_vars
  PROVE  BoardInv' /\ RowsInv'
<1>0. Grown
  BY StepGrown
<1>1. CASE UNCHANGED board
  <2>1. BoardInv'
    <3>1. \A u, date : OutKnown(u, date) => OutKnown(u, date)'
      BY <1>0, ExitGoes
    <3>2. ASSUME NEW u \in board.out, OutKnown(u, board.date) PROVE OutKnown(u, board.date)'
      <4>1. PICK date : date = board.date
        OBVIOUS
      <4>2. OutKnown(u, date)' /\ date = board'.date
        BY <3>1, <3>2, <4>1, <1>1
      <4> QED
        BY <4>2 DEF OutKnown
    <3> QED
      BY <3>2, <1>1 DEF BoardInv
  <2>2. RowsInv'
    BY <1>0, <1>1, RowsKept DEF RowsInv, Grown
  <2> QED
    BY <2>1, <2>2
<1>2. CASE \E v \in {Root} \cup {Viewer(u) : u \in In("user")} : OpenBoard(v)
  <2>1. PICK v, date : /\ UNCHANGED db
          /\ board' = [step |-> "crews", viewer |-> v, date |-> date,
                       out |-> {db[x].employee : x \in {y \in In("exit") : db[y].date = date /\ ~db[y].returned}}]
    BY <1>2 DEF OpenBoard
  <2>2. board'.step = "crews" /\ board'.date = date
        /\ \A u \in board'.out : \E x \in In("exit") : db[x].employee = u /\ db[x].date = date
    BY <2>1
  <2>3. In("exit")' = In("exit")
    BY <2>1 DEF In, Exists
  <2>4. \A u \in board'.out : \E x \in In("exit")' : db'[x].employee = u /\ db'[x].date = board'.date
    BY <2>1, <2>2, <2>3
  <2> QED
    BY <2>2, <2>4 DEF BoardInv, RowsInv, OutKnown
<1>3. CASE ReadCrews
  <2>1. /\ board.step = "crews" /\ UNCHANGED <<db, audit>> /\ board'.step = "count" /\ board'.rows = {}
        /\ board'.out = board.out /\ board'.date = board.date
        /\ board' = [step |-> "count", viewer |-> board'.viewer, date |-> board'.date, out |-> board'.out, rows |-> board'.rows,
                     todo |-> board'.todo]
    BY <1>3 DEF ReadCrews, registryVars
  <2>2. RowsInv'
    BY <2>1 DEF RowsInv
  <2>3. \A u \in board.out : OutKnown(u, board.date)
    BY <2>1 DEF BoardInv, Closed
  <2>4. \A u, date : OutKnown(u, date) => OutKnown(u, date)'
    BY <1>0, ExitGoes
  <2>5. \A u \in board'.out : OutKnown(u, board.date)'
    BY <2>1, <2>3, <2>4 DEF OutKnown
  <2> QED
    BY <2>1, <2>2, <2>5 DEF BoardInv
<1>4. CASE CountSection
  <2>1. PICK section \in board.todo :
       board' = [board EXCEPT
         !.todo = @ \ {section},
         !.rows = @ \cup {[section |-> section[1], crew |-> section[2],
                              left |-> section[2] \cap board.out,
                              incidents |-> Cardinality(Incidents(section[2], board.date))]}]
    BY <1>4 DEF CountSection
  <2> DEFINE row == [section |-> section[1], crew |-> section[2],
                     left |-> section[2] \cap board.out,
                     incidents |-> Cardinality(Incidents(section[2], board.date))]
  <2>2. board.step = "count" /\ UNCHANGED <<db, audit>>
    BY <1>4 DEF CountSection, registryVars
  <2>3. board' = [step |-> "count", viewer |-> board.viewer, date |-> board.date, out |-> board.out,
                  rows |-> board.rows \cup {row}, todo |-> board.todo \ {section}]
    <3>1. board = [step |-> "count", viewer |-> board.viewer, date |-> board.date, out |-> board.out, rows |-> board.rows,
                   todo |-> board.todo]
      BY <2>2 DEF RowsInv
    <3> DEFINE less == [board EXCEPT !.todo = @ \ {section}]
    <3>2. less = [step |-> "count", viewer |-> board.viewer, date |-> board.date, out |-> board.out, rows |-> board.rows,
                  todo |-> board.todo \ {section}]
      <4>1. \A rest : [board EXCEPT !.todo = rest] =
              [step |-> "count", viewer |-> board.viewer, date |-> board.date, out |-> board.out, rows |-> board.rows,
               todo |-> rest]
        BY <3>1
      <4> QED
        BY <4>1
    <3>3. board' = [less EXCEPT !.rows = @ \cup {row}]
      BY <2>1, <3>2
    <3> HIDE DEF less
    <3>4. \A more : [less EXCEPT !.rows = more] =
            [step |-> "count", viewer |-> board.viewer, date |-> board.date, out |-> board.out, rows |-> more,
             todo |-> board.todo \ {section}]
      BY <3>2
    <3>5. less.rows = board.rows
      BY <3>2
    <3> QED
      BY <3>3, <3>4, <3>5
  <2>4. \A u \in board.out : OutKnown(u, board.date)
    BY <2>2 DEF BoardInv, Closed
  <2>5. RowOK(row, board.out, audit)
    <3>1. CASE \A u \in row.left : <<u, "DELETE", None>> \notin audit
      <4>1. \A u \in section[2] \cap board.out : \E x \in In("exit") : db[x].employee = u /\ db[x].date = board.date
        BY <3>1, <2>4 DEF OutKnown
      <4>2. Cardinality(row.left) <= row.incidents
        BY <4>1, ExitsCounted
      <4> QED
        BY <4>2 DEF RowOK
    <3> QED
      BY <3>1 DEF RowOK
  <2> HIDE DEF row
  <2>6. RowsInv'
    BY <2>2, <2>3, <2>5 DEF RowsInv
  <2>7. \A u, date : OutKnown(u, date) => OutKnown(u, date)'
    BY <1>0, ExitGoes
  <2>8. board'.step = "count" /\ board'.out = board.out /\ board'.date = board.date
    BY <2>3
  <2>9. ASSUME NEW u \in board'.out PROVE OutKnown(u, board.date)'
    <3>1. PICK date : date = board.date
      OBVIOUS
    <3>2. OutKnown(u, date)' /\ date = board'.date
      BY <2>4, <2>7, <2>8, <3>1
    <3> QED
      BY <3>2 DEF OutKnown
  <2> QED
    BY <2>6, <2>8, <2>9 DEF BoardInv
<1>5. CASE ReadOfficers
  <2>1. /\ board.step = "count" /\ UNCHANGED audit
        /\ board' = [step |-> "sent", rows |-> board.rows, out |-> board.out,
                     officers |-> {<<db[f].officer, db[f].officer \in board.out>> :
                                     f \in BoardOfficers(board.viewer, board.date)}]
    BY <1>5 DEF ReadOfficers, registryVars
  <2>2. board'.step = "sent" /\ board'.rows = board.rows /\ board'.out = board.out
        /\ \A officer \in board'.officers : officer = <<officer[1], officer[1] \in board'.out>>
    BY <2>1
  <2> QED
    BY <2>1, <2>2 DEF BoardInv, RowsInv
<1> QED
  BY <1>1, <1>2, <1>3, <1>4, <1>5 DEF Next, RecordExit, RecordReturn, vars

\* The administrators' dashboard agrees with itself, however the rows change while it is read.
THEOREM BoardCorrect == Spec => []BoardConsistent
<1>1. Init => CoreInv /\ BoardInv /\ RowsInv
  BY CoreInit, BoardInit
<1>2. CoreInv /\ BoardInv /\ RowsInv /\ [Next]_vars => (CoreInv /\ BoardInv /\ RowsInv)'
  BY CoreStep, BoardStep
<1>3. RowsInv => BoardConsistent
  <2>1. ASSUME RowsInv, board.step = "sent", NEW row \in board.rows, NEW officer \in board.officers,
               officer[1] \in row.crew
        PROVE  officer[2] <=> officer[1] \in row.left
    <3>1. RowOK(row, board.out, audit) /\ officer = <<officer[1], officer[1] \in board.out>>
      BY <2>1 DEF RowsInv
    <3>2. officer[2] = (officer[1] \in board.out)
      BY <3>1
    <3>3. row.left = row.crew \cap board.out
      BY <3>1 DEF RowOK
    <3> QED
      BY <3>2, <3>3, <2>1
  <2>2. ASSUME RowsInv, board.step \in {"count", "sent"}, NEW row \in board.rows
        PROVE  \/ Cardinality(row.left) <= row.incidents
               \/ \E u \in row.left : <<u, "DELETE", None>> \in audit
    BY <2>2 DEF RowsInv, RowOK
  <2> QED
    BY <2>1, <2>2 DEF BoardConsistent
<1> QED
  BY <1>1, <1>2, <1>3, PTL DEF Spec

------------------------------------------------------------------------------
(* The map and its history *)

LEMMA UserFacts ==
  ASSUME RowsFit(db), NEW u \in In("user")
  PROVE  /\ u \in Rows /\ Table[u] = "user" /\ Exists(u) /\ u \in RowsOf["user"]
         /\ db[u].pinfl \in Pinfls \cup {None} /\ db[u].hash = Hash(db[u].pinfl)
         /\ \A o \in In("user") : db[o].pinfl = db[u].pinfl => o = u \/ db[u].pinfl = None
<1>1. u \in Rows /\ Table[u] = "user" /\ Exists(u) /\ u \in RowsOf["user"]
  BY InRows, TablesAre DEF In
<1>2. WellFormed("user", db[u]) /\ FitsIn(db, u, db[u])
  BY <1>1 DEF RowsFit, Exists
<1>3. ASSUME NEW o \in In("user"), db[o].pinfl = db[u].pinfl, o # u, db[u].pinfl # None PROVE FALSE
  <2>1. o \in {y \in RowsOf[Table[u]] \ {u} : db[y] # Gone}
    BY <1>1, <1>3 DEF In, Exists
  <2> QED
    BY <2>1, <1>1, <1>2, <1>3 DEF FitsIn
<1> QED
  BY <1>1, <1>2, <1>3 DEF WellFormed

\* No two users have the same hash.
LEMMA OneUserOfHash ==
  ASSUME RowsFit(db), NEW u \in In("user"), db[u].hash # None
  PROVE  UserOf(db[u].hash) = {u}
<1>1. ASSUME NEW o \in In("user"), db[o].hash = db[u].hash PROVE o = u
  <2>1. /\ db[u].pinfl \in Pinfls \cup {None} /\ db[u].hash = Hash(db[u].pinfl)
        /\ db[o].pinfl \in Pinfls \cup {None} /\ db[o].hash = Hash(db[o].pinfl)
    BY UserFacts
  <2>2. db[o].pinfl = db[u].pinfl /\ db[u].pinfl # None
    BY <2>1, <1>1, HashesAre
  <2> QED
    BY <2>2, UserFacts
<1> QED
  BY <1>1 DEF UserOf

LEMMA CrewFacts ==
  ASSUME RowsFit(db), NEW s, NEW e \in CrewOf(s)
  PROVE  e \in In("user")
<1>1. PICK k \in In("crew") : db[k].employee = e
  BY DEF CrewOf
<1>2. k \in Rows /\ Table[k] = "crew" /\ Exists(k)
  BY <1>1, InRows, TablesAre
<1>3. PICK x \in References : x.of = "crew" /\ x.field = "employee" /\ x.to = "user" /\ x.onDelete = "CASCADE"
  <2>1. Refers("crew", "employee", "user", "CASCADE") \in References
    BY DEF References, DutyReferences
  <2> QED
    BY <2>1 DEF Refers
<1> QED
  BY <1>1, <1>2, <1>3, RowFacts

LEMMA LiveKeys ==
  ASSUME NEW v, NEW date, NEW key
  PROVE  /\ key \in DOMAIN LiveEntries(v, date) <=>
              \E s \in SectionsOf(MapDays(v, date)) : \E e \in CrewOf(s) : key = <<db[e].hash, s>>
         /\ key \in DOMAIN LiveEntries(v, date) /\ key[1] # None => LiveEntries(v, date)[key] = UserOf(key[1])
BY DEF LiveEntries

LEMMA ShownAsThemselvesHolds ==
  ASSUME RowsFit(db)
  PROVE  ShownAsThemselves
<1> SUFFICES ASSUME NEW date \in Dates, NEW s \in In("section"), NEW u \in In("user"),
                    u \in CrewOf(s), db[u].pinfl # None, s \in SectionsOf(MapDays(Root, date))
             PROVE  /\ <<Hash(db[u].pinfl), s>> \in DOMAIN LiveEntries(Root, date)
                    /\ LiveEntries(Root, date)[<<Hash(db[u].pinfl), s>>] = {u}
  BY DEF ShownAsThemselves
<1>1. db[u].hash = Hash(db[u].pinfl) /\ db[u].hash # None
  BY UserFacts, HashesAre
<1>2. UserOf(db[u].hash) = {u}
  BY <1>1, OneUserOfHash
<1>3. <<db[u].hash, s>> \in DOMAIN LiveEntries(Root, date)
  BY LiveKeys
<1>4. LiveEntries(Root, date)[<<db[u].hash, s>>] = UserOf(db[u].hash)
  BY <1>1, <1>3, LiveKeys
<1> QED
  BY <1>1, <1>2, <1>3, <1>4

LEMMA HistoryAgreesHolds ==
  ASSUME RowsFit(db)
  PROVE  HistoryAgrees
<1> SUFFICES ASSUME NEW date \in Dates, NEW v \in {Root} \cup {Viewer(u) : u \in In("user")}
             PROVE  LET live == LiveEntries(v, date)
                        reported == {db[u].hash : u \in In("user")} \X In("section")
                        history == HistoryEntries(v, date, reported)
                    IN  /\ \A key \in DOMAIN history \cap DOMAIN live : history[key] = live[key]
                        /\ \A key \in DOMAIN live : key[1] # None => key \in DOMAIN history /\ Cardinality(history[key]) = 1
  BY DEF HistoryAgrees
<1> DEFINE live == LiveEntries(v, date)
           reported == {db[u].hash : u \in In("user")} \X In("section")
           history == HistoryEntries(v, date, reported)
           sections == SectionsOf(MapDays(v, date))
           known == {db[e].hash : e \in UNION {CrewOf(s) : s \in sections}} \ {None}
<1>1. /\ DOMAIN history = {k \in reported : k[2] \in sections /\ k[1] \in known}
      /\ \A key \in DOMAIN history : history[key] = UserOf(key[1]) /\ key[1] # None
  BY DEF HistoryEntries
<1>2. ASSUME NEW key \in DOMAIN history \cap DOMAIN live PROVE history[key] = live[key]
  BY <1>1, <1>2, LiveKeys
<1>3. ASSUME NEW key \in DOMAIN live, key[1] # None PROVE key \in DOMAIN history /\ Cardinality(history[key]) = 1
  <2>1. PICK s \in sections : \E e \in CrewOf(s) : key = <<db[e].hash, s>>
    BY <1>3, LiveKeys
  <2>2. PICK e \in CrewOf(s) : key = <<db[e].hash, s>>
    BY <2>1
  <2>3. e \in In("user") /\ s \in In("section") /\ db[e].hash # None
    BY <2>2, <1>3, CrewFacts DEF SectionsOf
  <2>4. key \in reported /\ key[2] \in sections /\ key[1] \in known
    BY <2>1, <2>2, <2>3
  <2>5. UserOf(key[1]) = {e}
    BY <2>2, <2>3, OneUserOfHash
  <2> HIDE DEF history, reported, sections, known, live
  <2> QED
    BY <2>4, <2>5, <1>1, FS_Singleton
<1> HIDE DEF history, live
<1>4. (\A key \in DOMAIN history \cap DOMAIN live : history[key] = live[key])
      /\ \A key \in DOMAIN live : key[1] # None => key \in DOMAIN history /\ Cardinality(history[key]) = 1
  BY <1>2, <1>3
<1> QED
  BY <1>4 DEF history, live

------------------------------------------------------------------------------
(* The import: what it found stays as it was, and it leaves everybody on the sheet where it puts them *)

\* While a command is undisturbed, nothing changes but by the command.
LEMMA StillAlone ==
  ASSUME CoreInv, [Next]_vars, job'.step # "none", Undisturbed'
  PROVE  UNCHANGED <<registryVars, loadingVars>> \/ LoadingNext
<1>0. spent \in Nat /\ (job.step # "none" => job.since \in Nat)
  BY DEF CoreInv, RegistryInv, DataInv, DataTyped, JobOK, LoadFields, ImportFields, NoJob
<1>1. ASSUME job' = job PROVE spent' # spent + 1 /\ ~(spent' = spent /\ ~Alone)
  BY <1>0, <1>1 DEF CoreInv, JobAlone, Undisturbed
<1>2. CASE RegistryNext /\ UNCHANGED <<loadingVars, board>>
  <2>1. spent' = spent + 1 \/ (spent' = spent /\ ~Alone)
    BY <1>0, <1>2, RequestCounted DEF RegistryNext
  <2> QED
    BY <1>1, <1>2, <2>1 DEF loadingVars
<1>3. CASE \/ \E u \in In("user") : RecordExit(u)
           \/ \E x \in In("exit") : RecordReturn(x)
           \/ \E v \in {Root} \cup {Viewer(u) : u \in In("user")} : OpenBoard(v)
  <2>1. spent' = spent + 1 /\ job' = job
    BY <1>3 DEF RecordExit, RecordReturn, OpenBoard, loadingVars
  <2> QED
    BY <1>1, <2>1
<1>4. CASE ReadCrews \/ CountSection \/ ReadOfficers \/ UNCHANGED vars
  BY <1>4 DEF ReadCrews, CountSection, ReadOfficers, vars
<1> QED
  BY <1>2, <1>3, <1>4 DEF Next

LEMMA CommandAlone ==
  ASSUME CoreInv, LoadingNext, job'.step # "none", Undisturbed', ~StartLoad, ~StartImport
  PROVE  Undisturbed
<1>1. spent' = spent /\ spent \in Nat
  BY DEF LoadingNext, ClearTable, ReadParents, CreateRow, NextTable, RunImport, JobDies, registryVars,
         CoreInv, RegistryInv, DataInv, DataTyped
<1>2. UNCHANGED req /\ (job' = NoJob \/ (job'.alone = job.alone /\ job'.since = job.since))
  BY <1>1, CommandCounted DEF CoreInv
<1>3. job'.alone = job.alone /\ job'.since = job.since
  BY <1>2 DEF NoJob
<1>4. job'.alone /\ spent' = job'.since /\ Alone'
  BY DEF Undisturbed
<1>5. Alone
  BY <1>2, <1>4 DEF Alone
<1>6. job.alone
  BY <1>3, <1>4
<1>7. spent = job.since
  BY <1>1, <1>3, <1>4
<1> QED
  BY <1>5, <1>6, <1>7 DEF Undisturbed

\* What the import has looked up.
SheetRead(j) ==
  /\ j.present = {p \in Listed : Holders(p) # {}}
  /\ j.department # None => db[j.department].organization = j.org
  /\ j.position # None => j.department # None /\ db[j.position].department = j.department

\* Where it puts a user.
PlacedAt(j, rows, u) ==
  /\ rows[u].organization = j.org
  /\ rows[rows[u].department].organization = j.org
  /\ rows[rows[u].position].department = rows[u].department

ImportInv ==
  /\ job.step = "sheet" /\ Undisturbed => SheetRead(job)
  /\ ImportComplete

LEMMA ImportDone ==
  ASSUME CoreInv, RunImport, job.step = "sheet", SheetRead(job), job' # NoJob,
         NEW p \in Listed
  PROVE  \E u \in Holders(p)' : job.update \/ p \notin job.present => PlacedAt(job, db', u)
<1>0. RegistryInv /\ JobOK(job) /\ RowsFit(db)
  BY DEF CoreInv, RegistryInv, DataInv
<1>1. \/ Added = {} /\ ~job.update /\ UNCHANGED db
      \/ ~Refused /\ \E d, q, n, user : Imports(d, q, n, user)
  BY ImportedAs
<1>2. CASE Added = {} /\ ~job.update /\ UNCHANGED db
  <2>1. p \in job.present /\ Holders(p) # {}
    BY <1>2 DEF Added, SheetRead
  <2>2. Holders(p)' = Holders(p)
    BY <1>2 DEF Holders, In, Exists
  <2> QED
    BY <1>2, <2>1, <2>2
<1>3. CASE ~Refused /\ \E d, q, n, user : Imports(d, q, n, user)
  <2>1. PICK d, q, n, user : Imports(d, q, n, user)
    BY <1>3
  <2>2. /\ \A r \in Rows : r \notin Born(user) \cup Updated \cup Fresh(d, q, n) => db'[r] = db[r]
        /\ \A u \in Born(user) : AddedAs(u, d, q, n, user)
        /\ \A u \in Updated : UpdatedAs(u, d, q, n)
        /\ d \in Fresh(d, q, n) => db'[d] = [organization |-> job.org]
        /\ q \in Fresh(d, q, n) => db'[q] = [department |-> d]
    BY <1>0, <1>3, <2>1, ImportRows
  <2>3. /\ d \in RowsOf["department"] /\ q \in RowsOf["position"] /\ n \in RowsOf["special_rank"]
        /\ \A u \in Born(user) : u \in RowsOf["user"] /\ u \notin used
        /\ Updated \subseteq In("user") /\ \A s \in Added : Owner(user, user[s]) = s
    BY <1>0, <1>3, <2>1, ImportSets
  <2>4. /\ d \in Rows /\ Table[d] = "department" /\ q \in Rows /\ Table[q] = "position"
        /\ \A u \in Born(user) \cup Updated : u \in Rows /\ Table[u] = "user"
        /\ n \in Rows /\ Table[n] = "special_rank"
    <3>1. \A u \in Updated : u \in Rows /\ Table[u] = "user"
      BY <2>3, InRows, TablesAre
    <3>2. \A u \in Born(user) : u \in Rows /\ Table[u] = "user"
      BY <2>3, RowsAreOf, TablesAre
    <3> QED
      BY <3>1, <3>2, <2>3, RowsAreOf, TablesAre
  <2>5. /\ d \in Fresh(d, q, n) \/ (d = job.department /\ d # None)
        /\ q \in Fresh(d, q, n) \/ (q = job.position /\ q # None)
        /\ job.department # None => d = job.department
    <3>1. /\ d # None /\ q # None
          /\ IF job.department # None THEN d = job.department ELSE d \in New("department")
          /\ IF job.position # None THEN q = job.position ELSE q \in New("position")
      BY <2>1, <2>4, RowsAssumption DEF Imports, Named
    <3>2. /\ job.department \in RowsOf["department"] \cup {None} /\ job.position \in RowsOf["position"] \cup {None}
          /\ job.special_rank \in RowsOf["special_rank"] \cup {None}
      BY <1>0 DEF JobOK, ImportFields, NoJob
    <3>3. /\ job.department = None \/ Table[job.department] = "department"
          /\ job.position = None \/ Table[job.position] = "position"
          /\ job.special_rank = None \/ Table[job.special_rank] = "special_rank"
      BY <3>2, RowsAreOf, TablesAre
    <3> QED
      BY <3>1, <3>3, <2>4 DEF Fresh
  <2>6. db'[d].organization = job.org /\ db'[q].department = d
    <3>1. db'[d].organization = job.org
      <4>1. CASE d \in Fresh(d, q, n)
        BY <4>1, <2>2
      <4>2. CASE d \notin Fresh(d, q, n)
        <5>1. d \notin Born(user) \cup Updated \cup Fresh(d, q, n) /\ d = job.department /\ d # None
          BY <4>2, <2>4, <2>5
        <5> QED
          BY <5>1, <2>2, <2>4 DEF SheetRead
      <4> QED
        BY <4>1, <4>2
    <3>2. db'[q].department = d
      <4>1. CASE q \in Fresh(d, q, n)
        BY <4>1, <2>2
      <4>2. CASE q \notin Fresh(d, q, n)
        <5>1. q \notin Born(user) \cup Updated \cup Fresh(d, q, n) /\ q = job.position /\ q # None
          BY <4>2, <2>4, <2>5
        <5>2. db'[q] = db[q] /\ db[q].department = job.department /\ job.department # None
          BY <5>1, <2>2, <2>4 DEF SheetRead
        <5> QED
          BY <5>2, <2>5
      <4> QED
        BY <4>1, <4>2
    <3> QED
      BY <3>1, <3>2
  <2>7. ASSUME NEW u \in Rows, Assigned(db'[u], d, q, n) PROVE PlacedAt(job, db', u)
    BY <2>6, <2>7 DEF Assigned, PlacedAt
  <2>8. ASSUME NEW u \in Rows, Table[u] = "user", db'[u] # Gone, db'[u].pinfl = p PROVE u \in Holders(p)'
    <3>1. u \in In("user")'
      BY <2>8, TablesAre DEF In, RowsOf, Exists
    <3> QED
      BY <3>1, <2>8 DEF Holders
  <2>9. CASE p \notin job.present
    <3>1. p \in Added /\ user[p] \in Born(user)
      BY <2>9 DEF Added, Born
    <3>2. AddedAs(user[p], d, q, n, user) /\ Owner(user, user[p]) = p
      BY <3>1, <2>2, <2>3
    <3>3. /\ user[p] \in Rows /\ Table[user[p]] = "user" /\ db'[user[p]] # Gone /\ db'[user[p]].pinfl = p
          /\ Assigned(db'[user[p]], d, q, n)
      BY <3>1, <3>2, <2>4, RowIsThere, TablesAre DEF AddedAs
    <3> QED
      BY <3>3, <2>7, <2>8
  <2>10. CASE p \in job.present
    <3>1. PICK u \in Holders(p) : TRUE
      BY <2>10 DEF SheetRead
    <3>2. u \in In("user") /\ db[u].pinfl = p /\ u \in Rows /\ Table[u] = "user" /\ db[u] # Gone /\ u \in used
      BY <3>1, <1>0, InRows, TablesAre DEF Holders, Exists, RegistryInv, DataInv, DataTyped
    <3>3. CASE job.update
      <4>1. u \in Updated
        BY <3>2, <3>3, <2>10 DEF Updated
      <4>2. WellFormed("user", db'[u]) /\ Assigned(db'[u], d, q, n) /\ db'[u].pinfl = p
        BY <4>1, <3>2, <2>2 DEF UpdatedAs
      <4>3. db'[u] # Gone
        BY <4>2, RowIsThere, TablesAre
      <4> QED
        BY <4>2, <4>3, <3>2, <2>7, <2>8
    <3>4. CASE ~job.update
      <4>1. u \notin Born(user) \cup Updated \cup Fresh(d, q, n)
        BY <3>2, <3>4, <2>3, <2>4 DEF Updated, Fresh
      <4>2. db'[u] = db[u]
        BY <4>1, <3>2, <2>2
      <4> QED
        BY <4>2, <3>2, <3>4, <2>8, <2>10
    <3> QED
      BY <3>3, <3>4
  <2> QED
    BY <2>9, <2>10
<1> QED
  BY <1>1, <1>2, <1>3

LEMMA ImportInvStep ==
  ASSUME CoreInv, ImportInv, [Next]_vars
  PROVE  ImportInv'
<1>1. SUFFICES ASSUME job'.step \in {"sheet", "imported"}, Undisturbed'
               PROVE  ImportInv'
  BY DEF ImportInv, ImportComplete
<1>2. CASE UNCHANGED <<registryVars, loadingVars>>
  <2>1. UNCHANGED <<db, req, spent, job>>
    BY <1>2 DEF registryVars, loadingVars
  <2>2. \A p : Holders(p)' = Holders(p)
    BY <2>1 DEF Holders, In, Exists
  <2>3. Undisturbed
    BY <2>1, <1>1 DEF Undisturbed, Alone
  <2> QED
    BY <2>1, <2>2, <2>3, <1>1 DEF ImportInv, ImportComplete, SheetRead
<1>3. CASE StartImport
  <2>1. PICK o \in In("organization"), update \in BOOLEAN :
        \E d \in {x \in In("department") : db[x].organization = o} \cup {None}, n \in In("special_rank") \cup {None} :
        \E q \in {x \in In("position") : d # None /\ db[x].department = d} \cup {None} :
          StartJob([step |-> "sheet", org |-> o, department |-> d, position |-> q, special_rank |-> n,
                    present |-> {p \in Listed : Holders(p) # {}}, update |-> update,
                    alone |-> Alone, since |-> spent + 1])
    BY <1>3 DEF StartImport
  <2>2. PICK d \in {x \in In("department") : db[x].organization = o} \cup {None}, n \in In("special_rank") \cup {None} :
        \E q \in {x \in In("position") : d # None /\ db[x].department = d} \cup {None} :
          StartJob([step |-> "sheet", org |-> o, department |-> d, position |-> q, special_rank |-> n,
                    present |-> {p \in Listed : Holders(p) # {}}, update |-> update,
                    alone |-> Alone, since |-> spent + 1])
    BY <2>1
  <2>3. PICK q \in {x \in In("position") : d # None /\ db[x].department = d} \cup {None} :
          StartJob([step |-> "sheet", org |-> o, department |-> d, position |-> q, special_rank |-> n,
                    present |-> {p \in Listed : Holders(p) # {}}, update |-> update,
                    alone |-> Alone, since |-> spent + 1])
    BY <2>2
  <2>4. /\ UNCHANGED db /\ job'.step = "sheet" /\ job'.present = {p \in Listed : Holders(p) # {}}
        /\ job'.department = d /\ job'.position = q /\ job'.org = o
    BY <2>3 DEF StartJob
  <2>5. \A p : Holders(p)' = Holders(p)
    BY <2>4 DEF Holders, In, Exists
  <2> QED
    BY <2>4, <2>5, <2>2, <2>3 DEF ImportInv, ImportComplete, SheetRead
<1>4. CASE RunImport
  <2>0. /\ job.step = "sheet" /\ job' = [job EXCEPT !.step = "imported"] /\ job' # NoJob
    BY <1>1, <1>4, ImportedAs DEF NoJob
  <2>1. job'.step = "imported" /\ job'.org = job.org /\ job'.update = job.update /\ job'.present = job.present
    BY <2>0, ImportedOK DEF CoreInv
  <2>2. Undisturbed
    <3>1. ~StartLoad /\ ~StartImport /\ LoadingNext
      BY <2>0, <1>4 DEF StartLoad, StartImport, StartJob, LoadingNext
    <3> QED
      BY <3>1, <1>1, CommandAlone
  <2>3. SheetRead(job)
    BY <2>0, <2>2 DEF ImportInv
  <2>4. \A p \in Listed : \E u \in Holders(p)' : job.update \/ p \notin job.present => PlacedAt(job, db', u)
    BY <2>0, <2>3, <1>4, ImportDone
  <2> QED
    BY <2>1, <2>4 DEF ImportInv, ImportComplete, PlacedAt
<1>5. CASE StartLoad \/ ClearTable \/ ReadParents \/ CreateRow \/ NextTable \/ JobDies
  <2>1. job'.step \notin {"sheet", "imported"}
    <3>1. CASE StartLoad \/ ReadParents \/ NextTable \/ JobDies
      BY <3>1 DEF StartLoad, StartJob, ReadParents, NextTable, JobDies, NoJob
    <3>2. CASE ClearTable
      <4>1. job = [step |-> "clear", todo |-> job.todo, plan |-> job.plan, alone |-> job.alone, since |-> job.since]
        BY <3>2 DEF ClearTable, CoreInv, JobOK, NoJob
      <4>2. [job EXCEPT !.step = "parents"].step = "parents"
        BY <4>1
      <4> QED
        BY <4>2, <3>2 DEF ClearTable
    <3>3. CASE CreateRow
      <4>1. /\ job.step = "create" /\ job.features # << >>
            /\ job' = NoJob \/ job' = [job EXCEPT !.features = Tail(@)]
        BY <3>3, CreatedAs DEF Creates
      <4> QED
        BY <4>1, CreateFields DEF CoreInv, NoJob
    <3> QED
      BY <1>5, <3>1, <3>2, <3>3
  <2> QED
    BY <2>1, <1>1
<1> QED
  BY <1>1, <1>2, <1>3, <1>4, <1>5, StillAlone DEF LoadingNext

------------------------------------------------------------------------------
(* The load: table after table, what stands in the database is what its file says so far *)

InOf(rows, t) == {r \in RowsOf[t] : rows[r] # Gone}
CodesOf(rows, codes, t) == {codes[r] : r \in InOf(rows, t)} \ {None}
CodeIn(codes, r) == IF r = None THEN None ELSE codes[r]

\* The features that have their parent in the database.
Wanted(t, features, rows, codes) ==
  {f \in features : /\ t = "district" => f.region \in CodesOf(rows, codes, "region")
                    /\ t = "mahalla" => f.district \in CodesOf(rows, codes, "district")}

\* The row is what the file says of it.
Stands(t, f, r, rows, codes) ==
  /\ codes[r] = f.code
  /\ t = "district" => CodeIn(codes, rows[r].region) = f.region
  /\ t = "mahalla" => CodeIn(codes, rows[r].district) = f.district
  /\ (t = "mahalla" /\ f.region \in CodesOf(rows, codes, "region")) => CodeIn(codes, rows[r].region) = f.region

\* The table holds these features and nothing else.
Restored(t, features, rows, codes) ==
  /\ IsFiniteSet(Wanted(t, features, rows, codes))
  /\ Cardinality(InOf(rows, t)) = Cardinality(Wanted(t, features, rows, codes))
  /\ \A f \in Wanted(t, features, rows, codes) : \E r \in InOf(rows, t) : Stands(t, f, r, rows, codes)

FirstOf(t, k) == {GeoFile[t][i] : i \in 1 .. k}
ParentsOf(t, rows) ==
  CASE t = "region" -> {} [] t = "district" -> InOf(rows, "region")
    [] OTHER -> InOf(rows, "region") \cup InOf(rows, "district")

\* The tables that a load is through with.
Finished(plan, todo) == {plan[i] : i \in 1 .. Len(plan) - Len(todo)}

LoadedSoFar(j, rows, codes) ==
  /\ \A t \in Finished(j.plan, j.todo) : Restored(t, Features(t), rows, codes)
  /\ j.step = "parents" => InOf(rows, Head(j.todo)) = {}
  /\ j.step = "create" =>
       /\ j.known = ParentsOf(Head(j.todo), rows)
       /\ \E k \in Nat : /\ LeftOf(GeoFile[Head(j.todo)], j.features, k)
                         /\ Restored(Head(j.todo), FirstOf(Head(j.todo), k), rows, codes)

LoadInv == job.step \in {"clear", "parents", "create", "loaded"} /\ Undisturbed => LoadedSoFar(job, db, code)

\* A table is loaded after those that it refers to.
Before(x, t) == (x = "region" /\ t \in {"district", "mahalla"}) \/ (x = "district" /\ t = "mahalla")

LEMMA FinishedAre ==
  ASSUME NEW plan \in Plans
  PROVE  /\ Finished(plan, plan) = {}
         /\ \A i \in DOMAIN plan : plan[i] \in Finished(plan, << >>)
         /\ \A todo \in Remainders(plan) : todo # << >> =>
              /\ Finished(plan, Tail(todo)) = Finished(plan, todo) \cup {Head(todo)}
              /\ \A x \in Finished(plan, todo) : Before(x, Head(todo))
<1>1. CASE plan = Levels
  <2>1. plan = <<"region", "district", "mahalla">> /\ Len(plan) = 3
    BY <1>1 DEF Levels
  <2>2. \A m \in 0 .. 3 : {plan[i] : i \in 1 .. m} =
          IF m = 0 THEN {} ELSE IF m = 1 THEN {"region"} ELSE IF m = 2 THEN {"region", "district"}
          ELSE {"region", "district", "mahalla"}
    <3>1. {plan[i] : i \in 1 .. 0} = {}
      OBVIOUS
    <3>2. {plan[i] : i \in 1 .. 1} = {"region"}
      <4>1. 1 .. 1 = {1}
        OBVIOUS
      <4> QED
        BY <4>1, <2>1
    <3>3. {plan[i] : i \in 1 .. 2} = {"region", "district"}
      <4>1. 1 .. 2 = {1, 2}
        OBVIOUS
      <4> QED
        BY <4>1, <2>1
    <3>4. {plan[i] : i \in 1 .. 3} = {"region", "district", "mahalla"}
      <4>1. 1 .. 3 = {1, 2, 3}
        OBVIOUS
      <4> QED
        BY <4>1, <2>1
    <3>5. \A m \in 0 .. 3 : m = 0 \/ m = 1 \/ m = 2 \/ m = 3
      OBVIOUS
    <3> QED
      BY <3>1, <3>2, <3>3, <3>4, <3>5
  <2>3. /\ Finished(plan, plan) = {} /\ Finished(plan, <<"district", "mahalla">>) = {"region"}
        /\ Finished(plan, <<"mahalla">>) = {"region", "district"}
        /\ Finished(plan, << >>) = {"region", "district", "mahalla"}
    BY <2>1, <2>2 DEF Finished
  <2>4. /\ Tail(plan) = <<"district", "mahalla">> /\ Tail(<<"district", "mahalla">>) = <<"mahalla">>
        /\ Tail(<<"mahalla">>) = << >>
        /\ Head(plan) = "region" /\ Head(<<"district", "mahalla">>) = "district" /\ Head(<<"mahalla">>) = "mahalla"
    BY <2>1
  <2>5. \A i \in DOMAIN plan : plan[i] \in {"region", "district", "mahalla"}
    BY <2>1
  <2>6. ASSUME NEW todo \in Remainders(plan), todo # << >>
        PROVE  /\ Finished(plan, Tail(todo)) = Finished(plan, todo) \cup {Head(todo)}
               /\ \A x \in Finished(plan, todo) : Before(x, Head(todo))
    <3>1. todo = plan \/ todo = <<"district", "mahalla">> \/ todo = <<"mahalla">>
      BY <2>6, <1>1 DEF Remainders
    <3> QED
      BY <3>1, <2>3, <2>4 DEF Before
  <2> QED
    BY <2>3, <2>5, <2>6
<1>2. CASE plan # Levels
  <2>1. PICK t \in LoadedTables : plan = <<t>>
    BY <1>2 DEF Plans
  <2>2. Remainders(plan) = {plan, << >>} /\ Len(plan) = 1 /\ Tail(plan) = << >> /\ Head(plan) = t /\ DOMAIN plan = {1}
    BY <1>2, <2>1 DEF Remainders
  <2>3. Finished(plan, plan) = {}
    BY <2>2 DEF Finished
  <2>4. Finished(plan, << >>) = {t}
    <3>1. 1 .. 1 - 0 = {1}
      OBVIOUS
    <3>2. Finished(plan, << >>) = {plan[i] : i \in {1}}
      BY <3>1, <2>2 DEF Finished
    <3> QED
      BY <3>2, <2>1
  <2>5. \A i \in DOMAIN plan : plan[i] \in Finished(plan, << >>)
    BY <2>1, <2>2, <2>4
  <2>6. \A todo \in Remainders(plan) : todo # << >> => todo = plan
    BY <2>2
  <2>7. /\ Finished(plan, Tail(plan)) = Finished(plan, plan) \cup {Head(plan)}
        /\ \A x \in Finished(plan, plan) : Before(x, Head(plan))
    <3>1. Finished(plan, Tail(plan)) = {t} /\ Head(plan) = t
      BY <2>2, <2>4
    <3> QED
      BY <3>1, <2>3
  <2> QED
    BY <2>3, <2>5, <2>6, <2>7
<1> QED
  BY <1>1, <1>2

\* A table that a load is through with stays as it is while the tables after it change.
LEMMA FinishedStays ==
  ASSUME RowsFit(db), NEW t, NEW x, Before(x, t), NEW features, NEW rows, NEW codes,
         Restored(x, features, db, code),
         \A y \in LoadedTables : y # t => InOf(rows, y) = InOf(db, y),
         \A r \in Rows : db[r] # Gone => codes[r] = code[r],
         x = "district" => \A r \in InOf(db, "district") : rows[r].region = db[r].region
  PROVE  Restored(x, features, rows, codes)
<1>1. x \in {"region", "district"} /\ t \in {"district", "mahalla"} /\ x # t
  BY DEF Before
<1>2. InOf(rows, x) = InOf(db, x) /\ InOf(rows, "region") = InOf(db, "region")
  BY <1>1 DEF Before, LoadedTables
<1>3. \A y \in {"region", "district"} : \A r \in InOf(db, y) : r \in Rows /\ db[r] # Gone /\ Table[r] = y /\ codes[r] = code[r]
  BY RowsAreOf, TablesAre DEF InOf
<1>4. CodesOf(rows, codes, "region") = CodesOf(db, code, "region")
  BY <1>2, <1>3 DEF CodesOf
<1>5. Wanted(x, features, rows, codes) = Wanted(x, features, db, code)
  BY <1>1, <1>4 DEF Wanted
<1>6. ASSUME NEW f \in features, NEW r \in InOf(db, x), Stands(x, f, r, db, code)
      PROVE  Stands(x, f, r, rows, codes)
  <2>1. codes[r] = code[r]
    BY <1>1, <1>3
  <2>2. CASE x = "district"
    <3>1. rows[r].region = db[r].region
      BY <2>2
    <3>2. r \in Rows /\ Exists(r) /\ Table[r] = "district"
      BY <2>2, <1>3 DEF Exists
    <3>3. PICK y \in References : y.of = "district" /\ y.field = "region" /\ y.to = "region"
      <4>1. Refers("district", "region", "region", "SET_NULL") \in References
        BY DEF References, DirectoryReferences
      <4> QED
        BY <4>1 DEF Refers
    <3>4. db[r].region # None => db[r].region \in In("region")
      BY <3>2, <3>3, RowFacts
    <3>5. db[r].region # None => codes[db[r].region] = code[db[r].region]
      BY <3>4, <1>3 DEF In, InOf, Exists
    <3> QED
      BY <2>1, <2>2, <3>1, <3>5, <1>6 DEF Stands, CodeIn
  <2>3. CASE x = "region"
    BY <2>1, <2>3, <1>6 DEF Stands
  <2> QED
    BY <2>2, <2>3, <1>1
<1> QED
  BY <1>2, <1>5, <1>6 DEF Restored, Wanted

\* A row that is there stands for its feature as long as its own parents and codes are as they were.
LEMMA StandsStill ==
  ASSUME RowsFit(db), NEW x \in LoadedTables, NEW f, NEW r \in InOf(db, x), NEW rows, NEW codes,
         Stands(x, f, r, db, code),
         \A y \in Rows : db[y] # Gone => codes[y] = code[y],
         rows[r] = db[r],
         x = "mahalla" => CodesOf(rows, codes, "region") = CodesOf(db, code, "region")
  PROVE  Stands(x, f, r, rows, codes)
<1>1. r \in Rows /\ Exists(r) /\ Table[r] = x /\ x \in Tables
  BY RowsAreOf, Loaded DEF InOf, Exists
<1>2. codes[r] = code[r]
  BY <1>1 DEF Exists
<1>3. ASSUME NEW y \in References, y.of = x
      PROVE  CodeIn(codes, db[r][y.field]) = CodeIn(code, db[r][y.field])
  <2>1. db[r][y.field] # None => db[r][y.field] \in In(y.to)
    BY <1>1, <1>3, RowFacts
  <2>2. y.to \in Tables
    BY DEF Tables
  <2>3. db[r][y.field] # None => db[r][y.field] \in Rows /\ db[db[r][y.field]] # Gone
    BY <2>1, <2>2, InRows DEF Exists
  <2> QED
    BY <2>3 DEF CodeIn
<1>4. x = "district" => CodeIn(codes, db[r].region) = CodeIn(code, db[r].region)
  <2>1. Refers("district", "region", "region", "SET_NULL") \in References
    BY DEF References, DirectoryReferences
  <2> QED
    BY <2>1, <1>3 DEF Refers
<1>5. x = "mahalla" => /\ CodeIn(codes, db[r].region) = CodeIn(code, db[r].region)
                       /\ CodeIn(codes, db[r].district) = CodeIn(code, db[r].district)
  <2>1. /\ Refers("mahalla", "region", "region", "SET_NULL") \in References
        /\ Refers("mahalla", "district", "district", "SET_NULL") \in References
    BY DEF References, DirectoryReferences
  <2> QED
    BY <2>1, <1>3 DEF Refers
<1> QED
  BY <1>2, <1>4, <1>5 DEF Stands

\* Clearing a table empties it, and leaves the rows of the two others and what those refer to.
LEMMA ClearedRows ==
  ASSUME RowsFit(db), NEW t \in LoadedTables, NEW rows, rows = Without(In(t))
  PROVE  /\ InOf(rows, t) = {}
         /\ \A y \in LoadedTables : y # t => InOf(rows, y) = InOf(db, y)
         /\ t = "mahalla" => \A r \in InOf(db, "district") : rows[r].region = db[r].region
<1>1. t \in Tables /\ \A r : r \in In(t) <=> r \in Rows /\ Table[r] = t /\ Exists(r)
  BY Loaded, InRows
<1>2. In(t) \in SUBSET Rows
  BY <1>1
<1>3. \A r \in Rows : (r \in In(t) \/ ~Exists(r)) => rows[r] = Gone
  BY DEF Without
<1>4. InOf(rows, t) = {}
  <2>1. ASSUME NEW r \in RowsOf[t], rows[r] # Gone
        PROVE  FALSE
    <3>1. r \in Rows /\ Table[r] = t
      BY <1>1, RowsAreOf
    <3> QED
      BY <3>1, <1>1, <1>3, <2>1
  <2> QED
    BY <2>1 DEF InOf
<1>5. ASSUME NEW y \in LoadedTables, y # t
      PROVE  InOf(rows, y) = InOf(db, y)
  <2>1. ASSUME NEW r \in RowsOf[y]
        PROVE  rows[r] # Gone <=> db[r] # Gone
    <3>1. r \in Rows /\ Table[r] = y
      BY Loaded, RowsAreOf
    <3>2. r \notin In(t)
      BY <3>1, <1>1, <1>5
    <3>3. Exists(r) => rows[r] # Gone
      BY <3>1, <3>2, <1>2, RowStays
    <3> QED
      BY <3>1, <3>3, <1>3 DEF Exists
  <2> QED
    BY <2>1 DEF InOf
<1>6. ASSUME t = "mahalla", NEW r \in InOf(db, "district")
      PROVE  rows[r].region = db[r].region
  <2>1. r \in Rows /\ Table[r] = "district" /\ db[r] # Gone /\ "district" \in Tables /\ "region" \in Tables
    BY RowsAreOf, TablesAre DEF InOf
  <2>2. r \notin In(t)
    BY <2>1, <1>1, <1>6
  <2>3. PICK x \in References : x.of = "district" /\ x.field = "region" /\ x.to = "region"
    <3>1. Refers("district", "region", "region", "SET_NULL") \in References
      BY DEF References, DirectoryReferences
    <3> QED
      BY <3>1 DEF Refers
  <2>4. x \in ReferencesOf[Table[r]]
    BY <2>1, <2>3, ReferencesOfTable
  <2>5. db[r].region # None => db[r].region \in In("region")
    BY <2>1, <2>3, RowFacts DEF Exists
  <2>6. db[r].region \notin In(t) \/ db[r].region = None
    BY <2>5, <2>1, <1>1, <1>6, InRows
  <2>7. \A y \in ReferencesOf[Table[r]] :
          rows[r][y.field] = IF y.onDelete = "SET_NULL" /\ db[r][y.field] \in In(t) THEN None ELSE db[r][y.field]
    <3> DEFINE gone == In(t)
    <3>1. gone \in SUBSET Rows /\ r \in Rows /\ r \notin gone /\ db[r] # Gone /\ rows = Without(gone)
      BY <2>1, <2>2, <1>2
    <3> HIDE DEF gone
    <3>2. /\ DOMAIN Without(gone)[r] = Columns[Table[r]]
          /\ Without(gone)[r] = [f \in Columns[Table[r]] |-> Without(gone)[r][f]]
          /\ \A y \in ReferencesOf[Table[r]] :
               Without(gone)[r][y.field] =
                 IF y.onDelete = "SET_NULL" /\ db[r][y.field] \in gone THEN None ELSE db[r][y.field]
          /\ \A f \in Columns[Table[r]] : f \in {"pinfl", "hash", "date", "status", "end", "returned"}
               => Without(gone)[r][f] = db[r][f]
          /\ \A f \in Columns[Table[r]] : Without(gone)[r][f] \in {None, db[r][f]}
      BY <3>1, RowLeft
    <3> QED
      BY <3>1, <3>2 DEF gone
  <2> QED
    BY <2>3, <2>4, <2>6, <2>7
<1> QED
  BY <1>4, <1>5, <1>6

LEMMA ClearLoads ==
  ASSUME RegistryInv, JobOK(job), ClearTable, LoadedSoFar(job, db, code)
  PROVE  LoadedSoFar(job', db', code')
<1> DEFINE t == Head(job.todo)
<1>1. /\ job.step = "clear" /\ UNCHANGED code /\ db' = Without(In(t)) /\ job' = [job EXCEPT !.step = "parents"]
  BY DEF ClearTable
<1>2. /\ LoadFields(job) /\ job.todo # << >>
      /\ job = [step |-> job.step, todo |-> job.todo, plan |-> job.plan, alone |-> job.alone, since |-> job.since]
  BY <1>1 DEF JobOK, NoJob
<1>3. job'.step = "parents" /\ job'.todo = job.todo /\ job'.plan = job.plan
  BY <1>1, <1>2
<1>4. t \in LoadedTables
  BY <1>2, RemaindersAre DEF LoadFields
<1>5. RowsFit(db)
  BY DEF RegistryInv, DataInv
<1>6. /\ InOf(db', t) = {}
      /\ \A y \in LoadedTables : y # t => InOf(db', y) = InOf(db, y)
      /\ t = "mahalla" => \A r \in InOf(db, "district") : db'[r].region = db[r].region
  BY <1>1, <1>4, <1>5, ClearedRows
<1>7. ASSUME NEW x \in Finished(job.plan, job.todo)
      PROVE  Restored(x, Features(x), db', code')
  <2>1. Before(x, t)
    BY <1>2, FinishedAre DEF LoadFields
  <2>2. Restored(x, Features(x), db, code)
    BY <1>7 DEF LoadedSoFar
  <2>3. x = "district" => \A r \in InOf(db, "district") : db'[r].region = db[r].region
    BY <2>1, <1>6 DEF Before
  <2>4. \A r \in Rows : db[r] # Gone => code'[r] = code[r]
    BY <1>1
  <2> HIDE DEF t
  <2> QED
    BY <2>1, <2>2, <2>3, <2>4, <1>5, <1>6, FinishedStays
<1> QED
  BY <1>3, <1>6, <1>7 DEF LoadedSoFar

LEMMA ReadLoads ==
  ASSUME JobOK(job), ReadParents, LoadedSoFar(job, db, code)
  PROVE  LoadedSoFar(job', db', code')
<1> DEFINE t == Head(job.todo)
<1>1. /\ job.step = "parents" /\ UNCHANGED <<db, code>>
      /\ job'.step = "create" /\ job'.todo = job.todo /\ job'.plan = job.plan /\ job'.features = GeoFile[t]
  BY DEF ReadParents, registryVars
<1>2. job'.known = ParentsOf(t, db)
  <2>1. job'.known = CASE t = "region" -> {} [] t = "district" -> In("region")
                         [] OTHER -> In("region") \cup In("district")
    BY DEF ReadParents
  <2>2. In("region") = InOf(db, "region") /\ In("district") = InOf(db, "district")
    BY DEF In, InOf, Exists
  <2> QED
    BY <2>1, <2>2, Zenon DEF ParentsOf
<1>3. LoadFields(job) /\ job.todo # << >>
  BY <1>1 DEF JobOK, NoJob
<1>4. t \in LoadedTables
  BY <1>3, RemaindersAre DEF LoadFields
<1>5. LeftOf(GeoFile[t], GeoFile[t], 0)
  <2>1. GeoFile[t] \in Seq(Features(t))
    BY <1>4, FilesAssumption
  <2>2. Len(GeoFile[t]) \in Nat
    BY <2>1
  <2> QED
    BY <2>2 DEF LeftOf
<1>6. Restored(t, FirstOf(t, 0), db, code)
  <2>1. FirstOf(t, 0) = {}
    BY DEF FirstOf
  <2>2. Wanted(t, {}, db, code) = {}
    BY DEF Wanted
  <2>3. InOf(db, t) = {}
    BY <1>1 DEF LoadedSoFar
  <2> QED
    BY <2>1, <2>2, <2>3, FS_EmptySet DEF Restored
<1>7. \E k \in Nat : LeftOf(GeoFile[t], job'.features, k) /\ Restored(t, FirstOf(t, k), db, code)
  BY <1>1, <1>5, <1>6
<1>8. \A x \in Finished(job.plan, job.todo) : Restored(x, Features(x), db, code)
  BY DEF LoadedSoFar
<1> QED
  BY <1>1, <1>2, <1>7, <1>8 DEF LoadedSoFar

LEMMA NextLoads ==
  ASSUME JobOK(job), NextTable, LoadedSoFar(job, db, code)
  PROVE  LoadedSoFar(job', db', code')
<1> DEFINE t == Head(job.todo)
<1>1. /\ job.step = "create" /\ job.features = << >> /\ UNCHANGED <<db, code>>
      /\ job'.step \in {"loaded", "clear"} /\ job'.todo = Tail(job.todo) /\ job'.plan = job.plan
  BY DEF NextTable, registryVars
<1>2. LoadFields(job) /\ job.todo # << >>
  BY <1>1 DEF JobOK, NoJob
<1>3. t \in LoadedTables
  BY <1>2, RemaindersAre DEF LoadFields
<1>4. PICK k \in Nat : LeftOf(GeoFile[t], job.features, k) /\ Restored(t, FirstOf(t, k), db, code)
  BY <1>1 DEF LoadedSoFar
<1>5. FirstOf(t, k) = Features(t)
  <2>1. GeoFile[t] \in Seq(Features(t))
    BY <1>3, FilesAssumption
  <2>2. Len(GeoFile[t]) \in Nat /\ DOMAIN GeoFile[t] = 1 .. Len(GeoFile[t])
    BY <2>1
  <2>3. k = Len(GeoFile[t])
    BY <1>1, <1>4, <2>2 DEF LeftOf
  <2> QED
    BY <2>2, <2>3 DEF FirstOf, Features
<1>6. Finished(job.plan, Tail(job.todo)) = Finished(job.plan, job.todo) \cup {t}
  BY <1>2, FinishedAre DEF LoadFields
<1>7. \A x \in Finished(job.plan, job.todo) : Restored(x, Features(x), db, code)
  BY DEF LoadedSoFar
<1> QED
  BY <1>1, <1>4, <1>5, <1>6, <1>7 DEF LoadedSoFar

LEMMA ContentIs ==
  ASSUME NEW t \in LoadedTables, NEW feature, NEW region, NEW district
  PROVE  /\ t = "district" => Content(t, feature, region, district).region = region
         /\ t = "mahalla" => /\ Content(t, feature, region, district).region = region
                             /\ Content(t, feature, region, district).district = district
<1>1. t = "district" => Content(t, feature, region, district) = [region |-> region]
  BY Zenon DEF Content
<1>2. t = "mahalla" => Content(t, feature, region, district) = [region |-> region, district |-> district]
  BY Zenon DEF Content
<1> QED
  BY <1>1, <1>2

\* The parent that is found has the code asked for; if none is, no row of the table that was read
\* has it.
LEMMA ParentFound ==
  ASSUME NEW t \in {"district", "mahalla"}, NEW p \in {"region", "district"}, p # t,
         job.known = ParentsOf(t, db), NEW x, NEW r \in Coded(p, x)
  PROVE  /\ r # None => r \in InOf(db, p) /\ r \in Rows /\ code[r] = x /\ x \in CodesOf(db, code, p)
         /\ r = None => x \notin CodesOf(db, code, p)
<1>1. p \in Tables /\ "region" \in Tables /\ "district" \in Tables
  BY TablesAre
<1>2. /\ t = "district" => p = "region" /\ job.known = InOf(db, "region")
      /\ t = "mahalla" => job.known = InOf(db, "region") \cup InOf(db, "district")
  <2>1. t = "district" => ParentsOf(t, db) = InOf(db, "region")
    BY Zenon DEF ParentsOf
  <2>2. t = "mahalla" => ParentsOf(t, db) = InOf(db, "region") \cup InOf(db, "district")
    BY Zenon DEF ParentsOf
  <2> QED
    BY <2>1, <2>2
<1>3. \A y : y \in InOf(db, p) => y \in job.known
  BY <1>2
<1>4. \A y \in job.known : y \in Rows /\ db[y] # Gone
  BY <1>1, <1>2, RowsAreOf DEF InOf
<1>5. job.known \subseteq Rows
  BY <1>4
<1>6. /\ r \in RowsOf[p] \cup {None}
      /\ (r # None => x # None /\ r \in job.known /\ Table[r] = p /\ code[r] = x)
      /\ (r = None => \A y \in job.known : ~(x # None /\ Table[y] = p /\ code[y] = x))
  BY <1>1, <1>5, CodedIs
<1>7. ASSUME r # None
      PROVE  r \in InOf(db, p) /\ r \in Rows /\ code[r] = x /\ x \in CodesOf(db, code, p)
  <2>1. r \in InOf(db, p) /\ r \in Rows
    BY <1>4, <1>6, <1>7 DEF InOf
  <2> QED
    BY <2>1, <1>6, <1>7 DEF CodesOf
<1>8. ASSUME r = None, x \in CodesOf(db, code, p)
      PROVE  FALSE
  <2>1. PICK y \in InOf(db, p) : code[y] = x /\ x # None
    BY <1>8 DEF CodesOf
  <2>2. y \in job.known /\ Table[y] = p
    BY <2>1, <1>1, <1>3, RowsAreOf DEF InOf
  <2> QED
    BY <2>1, <2>2, <1>6, <1>8
<1> QED
  BY <1>7, <1>8

\* One feature more: it is wanted or not.
LEMMA WantedMore ==
  ASSUME NEW t, NEW features, NEW f, NEW rows, NEW codes
  PROVE  /\ Wanted(t, features \cup {f}, rows, codes) = Wanted(t, features, rows, codes) \cup Wanted(t, {f}, rows, codes)
         /\ Wanted(t, {f}, rows, codes) \subseteq {f} /\ Wanted(t, features, rows, codes) \subseteq features
         /\ f \in Wanted(t, {f}, rows, codes) <=>
              /\ t = "district" => f.region \in CodesOf(rows, codes, "region")
              /\ t = "mahalla" => f.district \in CodesOf(rows, codes, "district")
  BY DEF Wanted

\* The next feature of the file is none of those before it.
LEMMA FirstMore ==
  ASSUME NEW t \in LoadedTables, NEW k \in Nat, k + 1 \in DOMAIN GeoFile[t]
  PROVE  /\ FirstOf(t, k + 1) = FirstOf(t, k) \cup {GeoFile[t][k + 1]}
         /\ GeoFile[t][k + 1] \notin FirstOf(t, k)
<1>1. /\ GeoFile[t] \in Seq(Features(t))
      /\ \A i, m \in DOMAIN GeoFile[t] : GeoFile[t][i] = GeoFile[t][m] => i = m
  BY FilesAssumption
<1>2. DOMAIN GeoFile[t] = 1 .. Len(GeoFile[t]) /\ Len(GeoFile[t]) \in Nat
  BY <1>1
<1>3. 1 .. k + 1 = (1 .. k) \cup {k + 1} /\ \A i \in 1 .. k : i \in DOMAIN GeoFile[t] /\ i # k + 1
  BY <1>2
<1> QED
  BY <1>1, <1>3 DEF FirstOf

\* A row that is inserted for the next feature, if that is wanted, restores the table so far.
LEMMA RestoredMore ==
  ASSUME RowsFit(db), NEW t \in LoadedTables, NEW features, NEW f, f \notin features,
         Restored(t, features, db, code), Wanted(t, {f}, db, code) = {f},
         NEW r \in RowsOf[t], db[r] = Gone, NEW rows, NEW codes, NEW new, new # Gone,
         rows = [db EXCEPT ![r] = new],
         \A y \in Rows : db[y] # Gone => codes[y] = code[y],
         \A y \in LoadedTables : y # t => InOf(rows, y) = InOf(db, y),
         Stands(t, f, r, rows, codes)
  PROVE  Restored(t, features \cup {f}, rows, codes)
<1>0. t \in Tables /\ r \in Rows /\ db \in [Rows -> AnyRow \cup {Gone}]
  BY Loaded, RowsAreOf DEF RowsFit
<1>1. InOf(rows, t) = InOf(db, t) \cup {r} /\ r \notin InOf(db, t)
  <2>1. \A y \in RowsOf[t] : rows[y] # Gone <=> y = r \/ db[y] # Gone
    BY <1>0, RowsAreOf
  <2> QED
    BY <2>1 DEF InOf
<1>2. IsFiniteSet(InOf(db, t))
  <2>1. InOf(db, t) \subseteq Rows /\ IsFiniteSet(Rows)
    BY <1>0, RowsAreOf, RowsAssumption DEF InOf
  <2> QED
    BY <2>1, FS_Subset
<1>3. Cardinality(InOf(rows, t)) = Cardinality(InOf(db, t)) + 1
  BY <1>1, <1>2, FS_AddElement
<1>4. /\ t = "district" => CodesOf(rows, codes, "region") = CodesOf(db, code, "region")
      /\ t = "mahalla" => /\ CodesOf(rows, codes, "region") = CodesOf(db, code, "region")
                          /\ CodesOf(rows, codes, "district") = CodesOf(db, code, "district")
  <2>1. ASSUME NEW y \in {"region", "district"}, y # t
        PROVE  CodesOf(rows, codes, y) = CodesOf(db, code, y)
    <3>1. y \in LoadedTables /\ y \in Tables
      BY TablesAre DEF LoadedTables
    <3>2. InOf(rows, y) = InOf(db, y)
      BY <3>1, <2>1
    <3>3. \A z \in InOf(db, y) : codes[z] = code[z]
      BY <3>1, RowsAreOf DEF InOf
    <3> QED
      BY <3>2, <3>3 DEF CodesOf
  <2> QED
    BY <2>1
<1> DEFINE W == Wanted(t, features, db, code)
<1>5. Wanted(t, features \cup {f}, rows, codes) = W \cup {f}
  <2>1. Wanted(t, features \cup {f}, rows, codes) = Wanted(t, features \cup {f}, db, code)
    BY <1>4 DEF Wanted
  <2>2. Wanted(t, features \cup {f}, db, code) = Wanted(t, features, db, code) \cup Wanted(t, {f}, db, code)
    BY WantedMore
  <2> QED
    BY <2>1, <2>2
<1>6. f \notin W /\ IsFiniteSet(W) /\ Cardinality(InOf(db, t)) = Cardinality(W)
      /\ \A g \in W : \E y \in InOf(db, t) : Stands(t, g, y, db, code)
  BY WantedMore DEF Restored
<1> HIDE DEF W
<1>7. IsFiniteSet(W \cup {f}) /\ Cardinality(W \cup {f}) = Cardinality(W) + 1
  BY <1>6, FS_AddElement
<1>8. ASSUME NEW g \in W
      PROVE  \E y \in InOf(rows, t) : Stands(t, g, y, rows, codes)
  <2>1. PICK y \in InOf(db, t) : Stands(t, g, y, db, code)
    BY <1>6
  <2>2. y # r /\ y \in InOf(rows, t)
    BY <1>1
  <2>3. rows[y] = db[y]
    BY <2>2, <1>0
  <2>4. Stands(t, g, y, rows, codes)
    BY <2>1, <2>3, <1>4, StandsStill
  <2> QED
    BY <2>2, <2>4
<1>9. r \in InOf(rows, t)
  BY <1>1
<1> QED
  BY <1>3, <1>5, <1>6, <1>7, <1>8, <1>9 DEF Restored

LEMMA CreateLoads ==
  ASSUME RegistryInv, JobOK(job), CodesTyped, CreateRow, job' # NoJob, LoadedSoFar(job, db, code)
  PROVE  LoadedSoFar(job', db', code')
<1> DEFINE t == Head(job.todo)
           f == Head(job.features)
<1>1. job.step = "create" /\ job.features # << >>
  BY CreatedAs
<1>2. PICK region \in Coded("region", f.region), district \in Coded("district", f.district) :
        Creates(region, district)
  BY CreatedAs
<1>3. /\ t \in LoadedTables /\ job.known \subseteq Rows /\ LoadFields(job)
      /\ [job EXCEPT !.features = Tail(@)] =
           [step |-> "create", todo |-> job.todo, plan |-> job.plan, alone |-> job.alone, since |-> job.since,
            features |-> Tail(job.features), known |-> job.known]
  BY <1>1, CreateFields
<1>4. job' = [job EXCEPT !.features = Tail(@)]
  BY <1>2 DEF Creates
<1>5. /\ job'.step = "create" /\ job'.todo = job.todo /\ job'.plan = job.plan /\ job'.known = job.known
      /\ job'.features = Tail(job.features)
  BY <1>3, <1>4
<1>6. /\ \A x \in Finished(job.plan, job.todo) : Restored(x, Features(x), db, code)
      /\ job.known = ParentsOf(t, db)
  BY <1>1 DEF LoadedSoFar
<1>7. PICK k \in Nat : LeftOf(GeoFile[t], job.features, k) /\ Restored(t, FirstOf(t, k), db, code)
  BY <1>1 DEF LoadedSoFar
<1>8. RowsFit(db) /\ (\A r \in Rows : Exists(r) => r \in used) /\ job.todo # << >>
  BY <1>1 DEF RegistryInv, DataInv, DataTyped, JobOK, NoJob
<1>9. \A x \in Finished(job.plan, job.todo) : Before(x, t)
  BY <1>3, <1>8, FinishedAre DEF LoadFields
<1>10. LeftOf(GeoFile[t], Tail(job.features), k + 1) /\ k + 1 \in DOMAIN GeoFile[t] /\ f = GeoFile[t][k + 1]
  <2>1. GeoFile[t] \in Seq(Features("region")) \cup Seq(Features("district")) \cup Seq(Features("mahalla"))
    BY <1>3, FilesAssumption DEF LoadedTables
  <2>2. job.features \in Seq(Features(t))
    BY <1>1, <1>3 DEF JobOK, NoJob
  <2> QED
    BY <2>1, <2>2, <1>1, <1>7, FeaturesLeft
<1>11. FirstOf(t, k + 1) = FirstOf(t, k) \cup {f} /\ f \notin FirstOf(t, k)
  BY <1>3, <1>10, FirstMore
<1>12. /\ t = "district" => (region = None <=> f.region \notin CodesOf(db, code, "region"))
       /\ t = "mahalla" => /\ region = None <=> f.region \notin CodesOf(db, code, "region")
                           /\ district = None <=> f.district \notin CodesOf(db, code, "district")
       /\ t \in {"district", "mahalla"} /\ region # None => region \in InOf(db, "region") /\ region \in Rows /\ code[region] = f.region
       /\ t = "mahalla" /\ district # None => district \in InOf(db, "district") /\ district \in Rows /\ code[district] = f.district
  <2> HIDE DEF t, f
  <2>1. t \in {"district", "mahalla"} =>
          /\ region # None => region \in InOf(db, "region") /\ region \in Rows /\ code[region] = f.region
                              /\ f.region \in CodesOf(db, code, "region")
          /\ region = None => f.region \notin CodesOf(db, code, "region")
    BY <1>2, <1>6, ParentFound
  <2>2. t = "mahalla" =>
          /\ district # None => district \in InOf(db, "district") /\ district \in Rows /\ code[district] = f.district
                                /\ f.district \in CodesOf(db, code, "district")
          /\ district = None => f.district \notin CodesOf(db, code, "district")
    BY <1>2, <1>6, ParentFound
  <2> QED
    BY <2>1, <2>2
<1>13. f \in Wanted(t, {f}, db, code) <=>
         ~((t = "district" /\ region = None) \/ (t = "mahalla" /\ district = None))
  <2> HIDE DEF t, f
  <2>1. f \in Wanted(t, {f}, db, code) <=>
          /\ t = "district" => f.region \in CodesOf(db, code, "region")
          /\ t = "mahalla" => f.district \in CodesOf(db, code, "district")
    BY WantedMore
  <2> QED
    BY <2>1, <1>12
<1>14. Wanted(t, {f}, db, code) = IF f \in Wanted(t, {f}, db, code) THEN {f} ELSE {}
  <2> HIDE DEF t, f
  <2>1. Wanted(t, {f}, db, code) \subseteq {f}
    BY DEF Wanted
  <2> QED
    BY <2>1
<1> DEFINE new == Content(t, f, region, district)
           r == CHOOSE x \in New(t) : TRUE
<1>15. CASE /\ (t = "district" /\ region = None) \/ (t = "mahalla" /\ district = None)
            /\ UNCHANGED <<db, code>>
  <2>1. Wanted(t, FirstOf(t, k + 1), db, code) = Wanted(t, FirstOf(t, k), db, code)
    <3> HIDE DEF t, f
    <3>1. \A features : Wanted(t, features \cup {f}, db, code) = Wanted(t, features, db, code) \cup Wanted(t, {f}, db, code)
      BY DEF Wanted
    <3> QED
      BY <3>1, <1>11, <1>13, <1>14, <1>15
  <2>2. Restored(t, FirstOf(t, k + 1), db, code)
    BY <2>1, <1>7 DEF Restored
  <2>3. k + 1 \in Nat
    OBVIOUS
  <2> HIDE DEF t, f
  <2> QED
    BY <2>2, <2>3, <1>5, <1>6, <1>10, <1>15 DEF LoadedSoFar, t
<1>16. CASE /\ ~((t = "district" /\ region = None) \/ (t = "mahalla" /\ district = None))
            /\ New(t) # {} /\ db' = [db EXCEPT ![r] = new] /\ code' = [code EXCEPT ![r] = f.code]
  <2>1. r \in New(t)
    BY <1>16
  <2>2. r \in RowsOf[t] /\ r \in Rows /\ Table[r] = t /\ db[r] = Gone
    BY <2>1, <1>3, <1>8, Loaded, RowsAreOf DEF New, Exists
  <2>3. new # Gone
    <3>1. region \in RowsOf["region"] \cup {None} /\ district \in RowsOf["district"] \cup {None}
      BY <1>3, <1>2, CodedIs, TablesAre
    <3> QED
      BY <3>1, <1>3, ContentFits, RowIsThere, Loaded
  <2>4. /\ t = "district" => new.region = region
        /\ t = "mahalla" => new.region = region /\ new.district = district
    BY <1>3, ContentIs
  <2> HIDE DEF t, f, new, r
  <2>5. db \in [Rows -> AnyRow \cup {Gone}] /\ code = [y \in Rows |-> code[y]]
    BY <1>8 DEF RowsFit, CodesTyped
  <2>6. code'[r] = f.code /\ \A y \in Rows : y # r => code'[y] = code[y]
    BY <2>2, <2>5, <1>16
  <2>7. \A y \in Rows : db[y] # Gone => code'[y] = code[y]
    BY <2>2, <2>6
  <2>8. ASSUME NEW y \in LoadedTables, y # t
        PROVE  InOf(db', y) = InOf(db, y)
    <3>1. \A z \in RowsOf[y] : z \in Rows /\ z # r
      BY <2>2, <2>8, Loaded, RowsAreOf
    <3> QED
      BY <3>1, <2>5, <1>16 DEF InOf
  <2>9. \A y \in InOf(db, "region") \cup InOf(db, "district") : y \in Rows /\ db[y] # Gone
    BY TablesAre, RowsAreOf DEF InOf
  <2>10. t = "mahalla" => CodesOf(db', code', "region") = CodesOf(db, code, "region")
    <3>1. t = "mahalla" => InOf(db', "region") = InOf(db, "region")
      BY <2>8 DEF LoadedTables
    <3>2. \A y \in InOf(db, "region") : code'[y] = code[y]
      BY <2>7, <2>9
    <3> QED
      BY <3>1, <3>2 DEF CodesOf
  <2>11. /\ t = "district" => CodeIn(code', region) = f.region
         /\ t = "mahalla" => CodeIn(code', district) = f.district
         /\ t = "mahalla" /\ f.region \in CodesOf(db, code, "region") => CodeIn(code', region) = f.region
    BY <1>12, <1>16, <2>7, <2>9 DEF CodeIn
  <2>12. db'[r] = new
    BY <2>2, <2>5, <1>16
  <2>13. Stands(t, f, r, db', code')
    BY <2>4, <2>6, <2>10, <2>11, <2>12 DEF Stands
  <2>14. Wanted(t, {f}, db, code) = {f}
    BY <1>13, <1>14, <1>16
  <2>15. Restored(t, FirstOf(t, k + 1), db', code')
    <3> DEFINE features == FirstOf(t, k)
    <3>1. Restored(t, features, db, code) /\ f \notin features /\ t \in LoadedTables
      BY <1>3, <1>7, <1>11 DEF t
    <3> HIDE DEF features
    <3>2. Restored(t, features \cup {f}, db', code')
      BY <3>1, <1>8, <1>16, <2>2, <2>3, <2>7, <2>8, <2>13, <2>14, RestoredMore
    <3> QED
      BY <3>2, <1>11 DEF features
  <2>16. ASSUME NEW x \in Finished(job.plan, job.todo)
         PROVE  Restored(x, Features(x), db', code')
    <3>1. Before(x, t) /\ Restored(x, Features(x), db, code)
      BY <1>6, <1>9
    <3>2. x = "district" => \A y \in InOf(db, "district") : db'[y].region = db[y].region
      BY <2>2, <2>5, <2>9, <1>16
    <3> QED
      BY <3>1, <3>2, <1>8, <2>7, <2>8, FinishedStays
  <2>17. ParentsOf(t, db') = ParentsOf(t, db)
    <3>1. t = "district" => InOf(db', "region") = InOf(db, "region")
      BY <2>8 DEF LoadedTables
    <3>2. t = "mahalla" => InOf(db', "region") = InOf(db, "region") /\ InOf(db', "district") = InOf(db, "district")
      BY <2>8 DEF LoadedTables
    <3>3. t = "region" \/ t = "district" \/ t = "mahalla"
      BY <1>3 DEF LoadedTables, t
    <3>4. CASE t = "region"
      BY <3>4, Zenon DEF ParentsOf
    <3>5. CASE t = "district"
      BY <3>5, <3>1, Zenon DEF ParentsOf
    <3>6. CASE t = "mahalla"
      BY <3>6, <3>2, Zenon DEF ParentsOf
    <3> QED
      BY <3>3, <3>4, <3>5, <3>6
  <2>18. k + 1 \in Nat
    OBVIOUS
  <2> QED
    BY <2>15, <2>16, <2>17, <2>18, <1>5, <1>6, <1>10 DEF LoadedSoFar, t
<1> QED
  BY <1>2, <1>15, <1>16 DEF Creates

LEMMA LoadInvStep ==
  ASSUME CoreInv, LoadInv, [Next]_vars
  PROVE  LoadInv'
<1>1. SUFFICES ASSUME job'.step \in {"clear", "parents", "create", "loaded"}, Undisturbed'
               PROVE  LoadedSoFar(job', db', code')
  BY DEF LoadInv
<1>2. CASE UNCHANGED <<registryVars, loadingVars>>
  <2>1. UNCHANGED <<db, req, spent, job, code>>
    BY <1>2 DEF registryVars, loadingVars
  <2>2. Undisturbed
    BY <2>1, <1>1 DEF Undisturbed, Alone
  <2> QED
    BY <2>1, <2>2, <1>1 DEF LoadInv
<1>3. CASE StartLoad
  <2>1. PICK plan \in Plans :
          StartJob([step |-> "clear", todo |-> plan, plan |-> plan, alone |-> Alone, since |-> spent + 1])
    BY <1>3 DEF StartLoad, Plans
  <2>2. job'.step = "clear" /\ job'.todo = plan /\ job'.plan = plan
    BY <2>1 DEF StartJob
  <2>3. Finished(plan, plan) = {}
    BY FinishedAre
  <2> QED
    BY <2>2, <2>3 DEF LoadedSoFar
<1>4. CASE ClearTable \/ ReadParents \/ CreateRow \/ NextTable
  <2>1. ~StartLoad /\ ~StartImport /\ LoadingNext /\ job'.step # "none"
    <3>1. job.step \in {"clear", "parents", "create"}
      BY <1>4, CreatedAs DEF ClearTable, ReadParents, NextTable
    <3> QED
      BY <3>1, <1>1, <1>4 DEF StartLoad, StartImport, StartJob, LoadingNext
  <2>2. Undisturbed
    BY <2>1, <1>1, CommandAlone
  <2>3. LoadedSoFar(job, db, code)
    <3>1. job.step \in {"clear", "parents", "create"}
      BY <1>4, CreatedAs DEF ClearTable, ReadParents, NextTable
    <3> QED
      BY <3>1, <2>2 DEF LoadInv
  <2>4. job' # NoJob
    BY <1>1 DEF NoJob
  <2> QED
    BY <2>3, <2>4, <1>4, ClearLoads, ReadLoads, CreateLoads, NextLoads DEF CoreInv
<1>5. ~StartImport /\ ~RunImport /\ ~JobDies
  <2>1. ~StartImport
    BY <1>1 DEF StartImport, StartJob
  <2>2. ~RunImport
    <3>1. RunImport => job'.step = "imported" \/ job' = NoJob
      BY ImportedAs, ImportedOK DEF CoreInv
    <3> QED
      BY <3>1, <1>1 DEF NoJob
  <2>3. ~JobDies
    BY <1>1 DEF JobDies, NoJob
  <2> QED
    BY <2>1, <2>2, <2>3
<1>6. UNCHANGED <<registryVars, loadingVars>> \/ LoadingNext
  BY <1>1, StillAlone
<1> QED
  BY <1>2, <1>3, <1>4, <1>5, <1>6 DEF LoadingNext

\* What the invariant says of a load that is through is what the property says.
LEMMA LoadRestoresHolds ==
  ASSUME JobOK(job), LoadInv
  PROVE  LoadRestores
<1>1. ASSUME job.step = "loaded", Undisturbed, NEW i \in DOMAIN job.plan
      PROVE  Restored(job.plan[i], Features(job.plan[i]), db, code)
  <2>1. LoadFields(job) /\ job.todo = << >>
    BY <1>1 DEF JobOK, NoJob
  <2>2. LoadedSoFar(job, db, code)
    BY <1>1 DEF LoadInv
  <2>3. job.plan[i] \in Finished(job.plan, << >>)
    BY <1>1, <2>1, FinishedAre DEF LoadFields
  <2> QED
    BY <2>1, <2>2, <2>3 DEF LoadedSoFar
<1>2. /\ \A p : In(p) = InOf(db, p)
      /\ \A p : {code[r] : r \in In(p)} \ {None} = CodesOf(db, code, p)
      /\ \A r : CodeOf(r) = CodeIn(code, r)
  <2>1. \A p : In(p) = InOf(db, p)
    BY DEF In, InOf, Exists
  <2> QED
    BY <2>1 DEF CodesOf, CodeOf, CodeIn
<1>3. ASSUME job.step = "loaded", Undisturbed, NEW i \in DOMAIN job.plan
      PROVE  LET t == job.plan[i]
                 codes(p) == {code[r] : r \in In(p)} \ {None}
                 wanted == {f \in Features(t) :
                              /\ t = "district" => f.region \in codes("region")
                              /\ t = "mahalla" => f.district \in codes("district")}
             IN  /\ Cardinality(In(t)) = Cardinality(wanted)
                 /\ \A f \in wanted : \E r \in In(t) :
                      /\ code[r] = f.code
                      /\ t = "district" => CodeOf(db[r].region) = f.region
                      /\ t = "mahalla" => CodeOf(db[r].district) = f.district
                      /\ (t = "mahalla" /\ f.region \in codes("region")) => CodeOf(db[r].region) = f.region
  <2> DEFINE t == job.plan[i]
             wanted == Wanted(t, Features(t), db, code)
  <2>1. /\ Cardinality(InOf(db, t)) = Cardinality(wanted)
        /\ \A f \in wanted : \E r \in InOf(db, t) : Stands(t, f, r, db, code)
    BY <1>1, <1>3 DEF Restored
  <2>2. wanted = {f \in Features(t) :
                    /\ t = "district" => f.region \in {code[r] : r \in In("region")} \ {None}
                    /\ t = "mahalla" => f.district \in {code[r] : r \in In("district")} \ {None}}
    BY <1>2 DEF Wanted
  <2>3. \A f, r : Stands(t, f, r, db, code) <=>
          /\ code[r] = f.code
          /\ t = "district" => CodeOf(db[r].region) = f.region
          /\ t = "mahalla" => CodeOf(db[r].district) = f.district
          /\ (t = "mahalla" /\ f.region \in {code[y] : y \in In("region")} \ {None}) => CodeOf(db[r].region) = f.region
    BY <1>2 DEF Stands
  <2>4. InOf(db, t) = In(t)
    BY <1>2
  <2> HIDE DEF t, wanted
  <2>5. /\ Cardinality(In(t)) = Cardinality(wanted)
        /\ \A f \in wanted : \E r \in In(t) :
             /\ code[r] = f.code
             /\ t = "district" => CodeOf(db[r].region) = f.region
             /\ t = "mahalla" => CodeOf(db[r].district) = f.district
             /\ (t = "mahalla" /\ f.region \in {code[y] : y \in In("region")} \ {None}) => CodeOf(db[r].region) = f.region
    BY <2>1, <2>3, <2>4
  <2> QED
    BY <2>2, <2>5, Zenon DEF t
<1> QED
  BY <1>3 DEF LoadRestores

------------------------------------------------------------------------------
(* The rows are consistent, whatever requests and commands overlap *)

\* Every request, command and dashboard is at a statement of it, and every row refers to rows.
LEMMA TypeOKHolds ==
  ASSUME CoreInv, RowsInv
  PROVE  TypeOK
<1>1. \A c \in Clients : req[c].step \in {"idle", "audit", "write", "roles", "set", "purge", "report"}
  BY StepsOf DEF CoreInv, RegistryInv
<1>2. job.step \in {"none", "clear", "parents", "create", "loaded", "sheet", "imported"}
  BY DEF CoreInv, JobOK, NoJob
<1>3. board.step \in {"closed", "crews", "count", "sent"}
  BY DEF RowsInv
<1>4. \A r \in Rows : Exists(r) => r \in used /\ Fits(r, db[r])
  BY DEF CoreInv, RegistryInv, DataInv, DataTyped, RowsFit, Exists, Fits
<1>5. LogTyped
  BY DEF CoreInv, RegistryInv, DataInv, DataTyped
<1> QED
  BY <1>1, <1>2, <1>3, <1>4, <1>5 DEF TypeOK, LogTyped

\* The rows, the requests and the command, the dashboard that is read, and what the command is
\* through with.
ScreensInv == CoreInv /\ BoardInv /\ RowsInv /\ ImportInv /\ LoadInv

\* The rows at the start are consistent, and no step ends it: the inductive invariant.
THEOREM ScreensCorrect == Spec => []ScreensInv
<1>1. Init => ScreensInv
  <2>1. Init => job.step = "none"
    BY DEF Init, LoadingInit, NoJob
  <2> QED
    BY <2>1, CoreInit, BoardInit DEF ScreensInv, ImportInv, ImportComplete, LoadInv
<1>2. ScreensInv /\ [Next]_vars => ScreensInv'
  <2> SUFFICES ASSUME ScreensInv, [Next]_vars PROVE ScreensInv'
    OBVIOUS
  <2>1. CoreInv'
    BY CoreStep DEF ScreensInv
  <2>2. BoardInv' /\ RowsInv'
    BY <2>1, BoardStep DEF ScreensInv
  <2>3. ImportInv' /\ LoadInv'
    BY ImportInvStep, LoadInvStep DEF ScreensInv
  <2> QED
    BY <2>1, <2>2, <2>3 DEF ScreensInv
<1> QED
  BY <1>1, <1>2, PTL DEF Spec

\* Every row refers to rows, the audit log accounts for every user's row, an attendance is its
\* owner's, the map and its history show everybody as themselves, and a load and an import that
\* nothing overlapped have done what they say.
THEOREM ConsistentCorrect == Spec => []Consistent
<1>1. ScreensInv => Consistent
  <2> SUFFICES ASSUME ScreensInv PROVE Consistent
    OBVIOUS
  <2>1. CoreInv /\ RowsInv /\ ImportComplete /\ LoadInv
    BY DEF ScreensInv, ImportInv
  <2>2. RowsFit(db) /\ AuditComplete /\ AttendanceOfOwner /\ JobOK(job)
    BY <2>1 DEF CoreInv, RegistryInv, DataInv
  <2>3. TypeOK
    BY <2>1, TypeOKHolds
  <2>4. ShownAsThemselves /\ HistoryAgrees
    BY <2>2, ShownAsThemselvesHolds, HistoryAgreesHolds
  <2>5. LoadRestores
    BY <2>1, <2>2, LoadRestoresHolds
  <2> QED
    BY <2>1, <2>2, <2>3, <2>4, <2>5 DEF Consistent
<1> QED
  BY <1>1, ScreensCorrect, PTL

------------------------------------------------------------------------------
(* What the screens show of one state of the rows: they agree in every state *)

\* A paper has a date and a status, and an organisation that is there.
LEMMA PaperFacts ==
  ASSUME RowsFit(db), NEW x \in Papers
  PROVE  /\ x \in Rows /\ db[x].date \in Int /\ db[x].status \in Statuses
         /\ db[x].organization \in In("organization") /\ db[x].organization # None
         /\ x \in In("day") \/ x \in In("event")
         /\ Table[x] = "day" => x \in In("day")
<1>1. x \in Rows /\ Exists(x) /\ Table[x] \in {"day", "event"}
  BY InRows, TablesAre DEF Papers
<1>2. WellFormed(Table[x], db[x])
  BY <1>1, RowFacts
<1>3. db[x].date \in Int /\ db[x].status \in Statuses
  BY <1>1, <1>2 DEF WellFormed
<1>4. PICK y \in References : y.of = Table[x] /\ y.field = "organization" /\ y.to = "organization" /\ y.onDelete = "CASCADE"
  <2>1. /\ Refers("day", "organization", "organization", "CASCADE") \in References
        /\ Refers("event", "organization", "organization", "CASCADE") \in References
    BY DEF References, DutyReferences, EventReferences
  <2> QED
    BY <2>1, <1>1 DEF Refers
<1>5. db[x].organization \in In("organization")
  BY <1>1, <1>4, RowFacts
<1>6. db[x].organization # None
  BY <1>5, InRows, TablesAre, RowsAssumption
<1>7. Table[x] = "day" => x \in In("day")
  BY <1>1, InRows, TablesAre
<1> QED
  BY <1>1, <1>3, <1>5, <1>6, <1>7 DEF Papers

LEMMA DatesAre ==
  ASSUME RowsFit(db)
  PROVE  PaperDates \subseteq Int
  BY PaperFacts DEF PaperDates

\* Who may decide a paper is of its district, and is shown papers of its status.
LEMMA Deciders ==
  ASSUME NEW v, NEW x,
         \/ MayCollect(v, x) \/ MayApprove(v, x)
         \/ MayReject(v, x) /\ (db[x].status = "SUBMITTED" => IsCollector(v))
  PROVE  /\ IsDistrictLevel(v)
         /\ IsSuperAdmin(v) \/ (DistrictOf(x) = v.district /\ db[x].status \in StatusesFor(v))
<1>1. IsCollector(v) \/ IsDistrictAdmin(v)
  BY DEF MayCollect, MayApprove, MayReject
<1>2. IsDistrictLevel(v)
  BY <1>1 DEF IsCollector, IsDistrictAdmin, IsDistrictLevel, OfDistrict
<1>3. IsSuperAdmin(v) \/ DistrictOf(x) = v.district
  BY DEF MayCollect, MayApprove, MayReject, InDistrict
<1>4. IsSuperAdmin(v) \/ db[x].status \in StatusesFor(v)
  BY DEF MayCollect, MayApprove, MayReject, IsCollector, StatusesFor
<1> QED
  BY <1>2, <1>3, <1>4

LEMMA ReviewersFindHolds ==
  ASSUME RowsFit(db)
  PROVE  ReviewersFind
<1>1. ASSUME NEW v, NEW district \in In("district"), NEW today \in PaperDates, NEW x \in Papers,
             DistrictOf(x) = district,
             \/ MayCollect(v, x) \/ MayApprove(v, x)
             \/ MayReject(v, x) /\ (db[x].status = "SUBMITTED" => IsCollector(v))
      PROVE  /\ (x \in DistrictPapers(v, "new", today, district)) # (x \in DistrictPapers(v, "archive", today, district))
             /\ Table[x] = "day" => x \in DistrictDetails(v)
  <2>1. /\ IsDistrictLevel(v)
        /\ IsSuperAdmin(v) \/ (DistrictOf(x) = v.district /\ db[x].status \in StatusesFor(v))
    BY <1>1, Deciders
  <2>2. district # None
    BY <1>1, InRows, TablesAre, RowsAssumption
  <2>3. db[x].date \in Int /\ today \in Int /\ (Table[x] = "day" => x \in In("day"))
    BY <1>1, PaperFacts, DatesAre
  <2>4. x \in DistrictPapers(v, "new", today, district) <=> InView("new", db[x].date, today)
    BY <2>1, <2>2, <1>1 DEF DistrictPapers
  <2>5. x \in DistrictPapers(v, "archive", today, district) <=> InView("archive", db[x].date, today)
    BY <2>1, <2>2, <1>1 DEF DistrictPapers
  <2>6. InView("new", db[x].date, today) <=> ~InView("archive", db[x].date, today)
    BY <2>3 DEF InView
  <2>7. Table[x] = "day" => x \in DistrictDetails(v)
    BY <2>1, <2>3 DEF DistrictDetails
  <2> QED
    BY <2>4, <2>5, <2>6, <2>7
<1> QED
  BY <1>1 DEF ReviewersFind

LEMMA WaitingIsDecidableHolds ==
  ASSUME RowsFit(db)
  PROVE  WaitingIsDecidable
<1>1. ASSUME NEW v, v.roles = {"COLLECTOR"} \/ v.roles = {"DISTRICT_ADMIN"}, NEW x \in Papers
      PROVE  x \in Waiting(v) <=> MayCollect(v, x) \/ MayApprove(v, x)
  BY <1>1 DEF Waiting, MayCollect, MayApprove, IsCollector, IsDistrictAdmin, IsSuperAdmin, InDistrict, OfDistrict
<1>2. ASSUME NEW v, v.roles = {"COLLECTOR"} \/ v.roles = {"DISTRICT_ADMIN"}
      PROVE  Waiting(v) = {x \in Papers : MayCollect(v, x) \/ MayApprove(v, x)}
  <2>1. Waiting(v) \subseteq Papers
    BY DEF Waiting
  <2> QED
    BY <2>1, <1>1, <1>2
<1> QED
  BY <1>2 DEF WaitingIsDecidable

LEMMA OfficersPrintHolds ==
  ASSUME RowsFit(db)
  PROVE  OfficersPrint
<1>1. ASSUME NEW v, NEW today \in PaperDates, IsOfficer(v)
      PROVE  /\ PrintableDays(v) = ListedDays(v, "new", today) \cup ListedDays(v, "archive", today)
             /\ PrintableEvents(v) = ListedEvents(v, "new", today) \cup ListedEvents(v, "archive", today)
  <2>1. today \in Int
    BY <1>1, DatesAre
  <2>2. \A x \in OwnDays(v) \cup OwnEvents(v) : x \in Papers
    BY DEF OwnDays, OwnEvents, Papers
  <2>3. \A x \in OwnDays(v) \cup OwnEvents(v) : InView("new", db[x].date, today) \/ InView("archive", db[x].date, today)
    BY <2>1, <2>2, PaperFacts DEF InView
  <2>4. PrintableDays(v) = OwnDays(v) /\ PrintableEvents(v) = OwnEvents(v)
    BY <1>1 DEF PrintableDays, PrintableEvents
  <2> QED
    BY <1>1, <2>3, <2>4 DEF ListedDays, ListedEvents
<1> QED
  BY <1>1 DEF OfficersPrint

\* A user of one role.
LEMMA OneRole ==
  ASSUME roles \in [RowsOf["user"] -> SUBSET Roles], NEW u \in In("user"), Cardinality(Viewer(u).roles) = 1
  PROVE  \E role \in Roles : Viewer(u).roles = {role}
<1>1. u \in RowsOf["user"] /\ Viewer(u).roles = roles[u]
  BY DEF In, Viewer
<1>2. roles[u] \subseteq Roles
  BY <1>1
<1>3. IsFiniteSet(Roles)
  <2>1. /\ IsFiniteSet({"SUPER_ADMIN"}) /\ IsFiniteSet({"DISTRICT_ADMIN"}) /\ IsFiniteSet({"COLLECTOR"})
        /\ IsFiniteSet({"OFFICER"})
    BY FS_Singleton
  <2>2. IsFiniteSet({"SUPER_ADMIN"} \cup {"DISTRICT_ADMIN"}) /\ IsFiniteSet({"COLLECTOR"} \cup {"OFFICER"})
    BY <2>1, FS_Union
  <2>3. IsFiniteSet(({"SUPER_ADMIN"} \cup {"DISTRICT_ADMIN"}) \cup ({"COLLECTOR"} \cup {"OFFICER"}))
    BY <2>2, FS_Union
  <2>4. Roles = ({"SUPER_ADMIN"} \cup {"DISTRICT_ADMIN"}) \cup ({"COLLECTOR"} \cup {"OFFICER"})
    BY DEF Roles
  <2> QED
    BY <2>3, <2>4
<1>4. IsFiniteSet(roles[u])
  BY <1>2, <1>3, FS_Subset
<1>5. PICK x : roles[u] = {x}
  BY <1>1, <1>4, FS_Singleton
<1> QED
  BY <1>1, <1>2, <1>5

LEMMA DaysAgreeHolds ==
  ASSUME RowsFit(db), roles \in [RowsOf["user"] -> SUBSET Roles]
  PROVE  DaysAgree
<1>1. ASSUME NEW v, NEW role \in Roles, v.roles = {role}, OfDistrict(v) => v.district # None, NEW date
      PROVE  /\ MapDays(v, date) = {d \in BoardDays(v, date) : db[d].status \in Shown}
             /\ DashboardDays(v, date) = BoardDays(v, date)
             /\ {db[d].organization : d \in MapDays(v, date)} \subseteq OrganizationsOffered(v)
  <2>1. /\ "SUPER_ADMIN" \in v.roles <=> role = "SUPER_ADMIN"
        /\ "OFFICER" \in v.roles <=> role = "OFFICER"
        /\ OfDistrict(v) <=> role \in {"DISTRICT_ADMIN", "COLLECTOR"}
    BY <1>1 DEF OfDistrict
  <2>2. role = "SUPER_ADMIN" \/ role = "OFFICER" \/ role \in {"DISTRICT_ADMIN", "COLLECTOR"}
    BY DEF Roles
  <2>3. MapDays(v, date) = {d \in BoardDays(v, date) : db[d].status \in Shown}
    BY <1>1, <2>1, <2>2 DEF MapDays, BoardDays
  <2>4. DashboardDays(v, date) = BoardDays(v, date)
    BY <1>1, <2>1, <2>2 DEF DashboardDays, BoardDays
  <2>5. ASSUME NEW d \in MapDays(v, date)
        PROVE  db[d].organization \in OrganizationsOffered(v)
    <3>1. d \in Papers
      BY DEF MapDays, Days, Papers
    <3>2. db[d].organization \in In("organization")
      BY <3>1, PaperFacts
    <3> QED
      BY <3>2, <2>1, <2>2 DEF MapDays, OrganizationsOffered, DistrictOf
  <2> QED
    BY <2>3, <2>4, <2>5
<1>2. ASSUME NEW u \in In("user"), Cardinality(Viewer(u).roles) = 1
      PROVE  \E role \in Roles : Viewer(u).roles = {role}
  BY <1>2, OneRole
<1>3. ASSUME NEW u \in In("user"), NEW date \in PaperDates, Cardinality(Viewer(u).roles) = 1,
             OfDistrict(Viewer(u)) => Viewer(u).district # None
      PROVE  /\ MapDays(Viewer(u), date) = {d \in BoardDays(Viewer(u), date) : db[d].status \in Shown}
             /\ DashboardDays(Viewer(u), date) = BoardDays(Viewer(u), date)
             /\ {db[d].organization : d \in MapDays(Viewer(u), date)} \subseteq OrganizationsOffered(Viewer(u))
  <2>1. PICK role \in Roles : Viewer(u).roles = {role}
    BY <1>2, <1>3
  <2> QED
    BY <2>1, <1>1, <1>3
<1> QED
  BY <1>3 DEF DaysAgree

\* What a screen shows of one date.
OfDate(rows, date) == {x \in rows : db[x].date = date}

LEMMA OfficersLists ==
  ASSUME RowsFit(db), NEW v, v.roles = {"OFFICER"}, NEW date \in Int
  PROVE  /\ {d \in OfDate(ListedDays(v, "new", date), date) : db[d].status \in Shown}
              = IF v.organization = None THEN {} ELSE MapDays(v, date)
         /\ EventBlock(v, date, date).listed = OfDate(ListedEvents(v, "new", date), date)
<1>1. ~IsSuperAdmin(v) /\ ~OfDistrict(v) /\ "OFFICER" \in v.roles /\ (IsOfficer(v) <=> v.organization # None)
  BY DEF IsSuperAdmin, OfDistrict, IsOfficer
<1>2. InView("new", date, date)
  BY DEF InView
<1>3. ASSUME NEW d
      PROVE  d \in {x \in OfDate(ListedDays(v, "new", date), date) : db[x].status \in Shown}
               <=> v.organization # None /\ d \in MapDays(v, date)
  BY <1>1, <1>2 DEF OfDate, ListedDays, OwnDays, MapDays, Days, IsSuperAdmin
<1>4. EventBlock(v, date, date).listed = {e \in BoardEvents(v) : db[e].date = date}
  BY DEF EventBlock
<1>5. ASSUME NEW e \in In("event"), db[e].organization = v.organization
      PROVE  v.organization # None
  <2>1. e \in Papers
    BY DEF Papers
  <2> QED
    BY <2>1, <1>5, PaperFacts
<1>6. ASSUME NEW e
      PROVE  e \in BoardEvents(v) /\ db[e].date = date <=> e \in OfDate(ListedEvents(v, "new", date), date)
  BY <1>1, <1>2, <1>5 DEF BoardEvents, OfDate, ListedEvents, OwnEvents
<1> QED
  BY <1>3, <1>4, <1>6

LEMMA DistrictsLists ==
  ASSUME NEW v, NEW role \in {"DISTRICT_ADMIN", "COLLECTOR"}, v.roles = {role}, NEW date \in Int
  PROVE  /\ OfDate(DistrictPapers(v, "new", date, None), date) \cap In("day") \subseteq MapDays(v, date)
         /\ OfDate(DistrictPapers(v, "new", date, None), date) \cap In("event")
              = {e \in EventBlock(v, date, date).listed : db[e].status \in StatusesFor(v)}
<1>1. ~IsSuperAdmin(v) /\ "OFFICER" \notin v.roles /\ OfDistrict(v) /\ (IsDistrictLevel(v) <=> v.district # None)
  BY DEF IsSuperAdmin, OfDistrict, IsDistrictLevel
<1>2. InView("new", date, date) /\ StatusesFor(v) \subseteq Shown
  BY DEF InView, StatusesFor, Shown
<1>3. ASSUME NEW x
      PROVE  x \in OfDate(DistrictPapers(v, "new", date, None), date) <=>
               /\ x \in Papers /\ v.district # None /\ db[x].date = date
               /\ DistrictOf(x) = v.district /\ db[x].status \in StatusesFor(v)
  BY <1>1, <1>2 DEF OfDate, DistrictPapers
<1>4. ASSUME NEW x \in OfDate(DistrictPapers(v, "new", date, None), date) \cap In("day")
      PROVE  x \in MapDays(v, date)
  BY <1>1, <1>2, <1>3 DEF MapDays, Days
<1>5. EventBlock(v, date, date).listed = {e \in BoardEvents(v) : db[e].date = date}
  BY DEF EventBlock
<1>6. ASSUME NEW e
      PROVE  e \in BoardEvents(v) <=> e \in In("event") /\ v.district # None /\ DistrictOf(e) = v.district
  BY <1>1 DEF BoardEvents
<1>7. In("event") \subseteq Papers
  BY DEF Papers
<1> QED
  BY <1>3, <1>4, <1>5, <1>6, <1>7

LEMMA TabletsLists ==
  ASSUME RowsFit(db), NEW u, NEW date \in Int
  PROVE  /\ TodayDuties(u, date) \subseteq MyDuties(u, "new", date)
         /\ \A v : \A s \in TodayDuties(u, date) :
              v.roles = {"OFFICER"} /\ db[db[s].day].organization = v.organization
                => s \in SectionsOf(MapDays(v, date))
<1>1. TodayDuties(u, date) \subseteq MyDuties(u, "new", date)
  BY DEF TodayDuties, MyDuties, InView
<1>2. ASSUME NEW s \in TodayDuties(u, date), NEW v, v.roles = {"OFFICER"}, db[db[s].day].organization = v.organization
      PROVE  s \in SectionsOf(MapDays(v, date))
  <2>1. s \in In("section") /\ db[db[s].day].status = "APPROVED" /\ db[db[s].day].date = date
    BY DEF TodayDuties, ServedBy, DateOf
  <2>2. db[s].day \in In("day")
    <3>1. s \in Rows /\ Exists(s) /\ Table[s] = "section"
      BY <2>1, InRows, TablesAre
    <3>2. PICK y \in References : y.of = "section" /\ y.field = "day" /\ y.to = "day" /\ y.onDelete = "CASCADE"
      <4>1. Refers("section", "day", "day", "CASCADE") \in References
        BY DEF References, DutyReferences
      <4> QED
        BY <4>1 DEF Refers
    <3> QED
      BY <3>1, <3>2, RowFacts
  <2>3. db[s].day \in MapDays(v, date)
    BY <2>1, <2>2, <1>2 DEF MapDays, Days, Shown, OfDistrict
  <2> QED
    BY <2>1, <2>3 DEF SectionsOf
<1> QED
  BY <1>1, <1>2

LEMMA ListsAgreeHolds ==
  ASSUME RowsFit(db), roles \in [RowsOf["user"] -> SUBSET Roles]
  PROVE  ListsAgree
<1> SUFFICES ASSUME NEW u \in In("user"), NEW date \in PaperDates
             PROVE  LET v == Viewer(u)
                        ofDate(rows) == {x \in rows : db[x].date = date}
                        seen == {d \in ofDate(ListedDays(v, "new", date)) : db[d].status \in Shown}
                        district == ofDate(DistrictPapers(v, "new", date, None))
                        officers == {o \in In("user") : roles[o] = {"OFFICER"}}
                    IN  /\ v.roles = {"OFFICER"} =>
                             /\ seen = IF v.organization = None THEN {} ELSE MapDays(v, date)
                             /\ EventBlock(v, date, date).listed = ofDate(ListedEvents(v, "new", date))
                        /\ Cardinality(v.roles) = 1 /\ OfDistrict(v) =>
                             /\ district \cap In("day") \subseteq MapDays(v, date)
                             /\ district \cap In("event") =
                                  {e \in EventBlock(v, date, date).listed : db[e].status \in StatusesFor(v)}
                        /\ TodayDuties(u, date) \subseteq MyDuties(u, "new", date)
                        /\ \A s \in TodayDuties(u, date), o \in officers :
                             db[db[s].day].organization = db[o].organization
                               => s \in SectionsOf(MapDays(Viewer(o), date))
  BY DEF ListsAgree
<1>1. date \in Int
  BY DatesAre
<1> DEFINE v == Viewer(u)
<1>2. v.roles = {"OFFICER"} =>
        /\ {d \in OfDate(ListedDays(v, "new", date), date) : db[d].status \in Shown}
             = IF v.organization = None THEN {} ELSE MapDays(v, date)
        /\ EventBlock(v, date, date).listed = OfDate(ListedEvents(v, "new", date), date)
  <2> HIDE DEF v
  <2> QED
    BY <1>1, OfficersLists
<1>3. Cardinality(v.roles) = 1 /\ OfDistrict(v) =>
        /\ OfDate(DistrictPapers(v, "new", date, None), date) \cap In("day") \subseteq MapDays(v, date)
        /\ OfDate(DistrictPapers(v, "new", date, None), date) \cap In("event")
             = {e \in EventBlock(v, date, date).listed : db[e].status \in StatusesFor(v)}
  <2> SUFFICES ASSUME Cardinality(v.roles) = 1, OfDistrict(v)
               PROVE  /\ OfDate(DistrictPapers(v, "new", date, None), date) \cap In("day") \subseteq MapDays(v, date)
                      /\ OfDate(DistrictPapers(v, "new", date, None), date) \cap In("event")
                           = {e \in EventBlock(v, date, date).listed : db[e].status \in StatusesFor(v)}
    OBVIOUS
  <2>1. PICK role \in Roles : v.roles = {role}
    BY OneRole
  <2> HIDE DEF v
  <2>2. role \in {"DISTRICT_ADMIN", "COLLECTOR"}
    BY <2>1 DEF OfDistrict
  <2> QED
    BY <2>1, <2>2, <1>1, DistrictsLists
<1>4. TodayDuties(u, date) \subseteq MyDuties(u, "new", date)
  BY <1>1, TabletsLists
<1>5. ASSUME NEW s \in TodayDuties(u, date), NEW o \in In("user"), roles[o] = {"OFFICER"},
             db[db[s].day].organization = db[o].organization
      PROVE  s \in SectionsOf(MapDays(Viewer(o), date))
  <2>1. Viewer(o).roles = {"OFFICER"} /\ db[db[s].day].organization = Viewer(o).organization
    BY <1>5 DEF Viewer
  <2> QED
    BY <2>1, <1>1, TabletsLists
<1> HIDE DEF v
<1> QED
  BY <1>2, <1>3, <1>4, <1>5 DEF OfDate, v

LEMMA EventsCountedHolds ==
  ASSUME RowsFit(db)
  PROVE  EventsCounted
<1>1. ASSUME NEW v, NEW now
      PROVE  LET block == EventBlock(v, now, now) IN
             /\ block.planned + block.completed + block.rejected = Cardinality(BoardEvents(v))
             /\ block.delayed <= block.planned
  <2> DEFINE events == BoardEvents(v)
             planned == {e \in events : db[e].status \in {"DRAFT", "SUBMITTED", "COLLECTED"}}
             decided == {e \in events : db[e].status \in {"APPROVED"}}
             refused == {e \in events : db[e].status \in {"REJECTED"}}
             delayed == {e \in planned : db[e].end < now}
  <2>1. /\ EventBlock(v, now, now).planned = Cardinality(planned)
        /\ EventBlock(v, now, now).completed = Cardinality(decided)
        /\ EventBlock(v, now, now).rejected = Cardinality(refused)
        /\ EventBlock(v, now, now).delayed = Cardinality(delayed)
    BY DEF EventBlock
  <2>2. IsFiniteSet(events)
    <3>1. events \subseteq Rows /\ IsFiniteSet(Rows)
      BY InRows, TablesAre, RowsAssumption DEF BoardEvents
    <3> QED
      BY <3>1, FS_Subset
  <2>3. \A e \in events : db[e].status \in Statuses
    <3>1. events \subseteq Papers
      BY DEF BoardEvents, Papers
    <3> QED
      BY <3>1, PaperFacts
  <2>4. /\ events = (planned \cup decided) \cup refused /\ planned \cap decided = {}
        /\ (planned \cup decided) \cap refused = {}
    BY <2>3 DEF Statuses
  <2>5. /\ planned \subseteq events /\ decided \subseteq events /\ refused \subseteq events /\ delayed \subseteq planned
    OBVIOUS
  <2> HIDE DEF events, planned, decided, refused, delayed
  <2>6. /\ IsFiniteSet(planned) /\ IsFiniteSet(decided) /\ IsFiniteSet(refused) /\ IsFiniteSet(delayed)
        /\ Cardinality(delayed) <= Cardinality(planned)
    BY <2>2, <2>5, FS_Subset
  <2>7. /\ Cardinality(planned) \in Nat /\ Cardinality(decided) \in Nat /\ Cardinality(refused) \in Nat
        /\ Cardinality(planned \cap decided) = 0 /\ Cardinality((planned \cup decided) \cap refused) = 0
    BY <2>4, <2>6, FS_CardinalityType, FS_EmptySet
  <2>8. /\ IsFiniteSet(planned \cup decided)
        /\ Cardinality(planned \cup decided) = Cardinality(planned) + Cardinality(decided) - Cardinality(planned \cap decided)
    BY <2>6, FS_Union
  <2>9. Cardinality((planned \cup decided) \cup refused)
          = Cardinality(planned \cup decided) + Cardinality(refused) - Cardinality((planned \cup decided) \cap refused)
    BY <2>6, <2>8, FS_Union
  <2>10. Cardinality(events) = Cardinality(planned) + Cardinality(decided) + Cardinality(refused)
    BY <2>4, <2>7, <2>8, <2>9
  <2> QED
    BY <2>1, <2>6, <2>10 DEF events
<1> QED
  BY <1>1 DEF EventsCounted

\* Who may decide a paper finds it, and the maps, dashboards, lists and tablets agree on what they
\* show, whatever requests and commands have done to the rows.
THEOREM ScreensAgreeCorrect == Spec => []ScreensAgree
<1>1. ScreensInv => ScreensAgree
  <2> SUFFICES ASSUME ScreensInv PROVE ScreensAgree
    OBVIOUS
  <2>1. RowsFit(db) /\ roles \in [RowsOf["user"] -> SUBSET Roles]
    BY DEF ScreensInv, CoreInv, RegistryInv, DataInv, DataTyped
  <2> QED
    BY <2>1, ReviewersFindHolds, WaitingIsDecidableHolds, OfficersPrintHolds, DaysAgreeHolds, ListsAgreeHolds,
       EventsCountedHolds DEF ScreensAgree
<1> QED
  BY <1>1, ScreensCorrect, PTL

------------------------------------------------------------------------------
(* What a deletion collects is all that a CASCADE reaches: four levels are enough *)

\* How many levels of CASCADE there are below a table at the most.
Depth(t) ==
  IF t = "organization" THEN 4 ELSE IF t = "day" THEN 3 ELSE IF t \in {"section", "main_duty"} THEN 2
  ELSE IF t \in {"assignment", "task", "user"} THEN 1 ELSE 0

LEMMA CascadesDescend ==
  \A x \in References : x.onDelete = "CASCADE" => Depth(x.of) < Depth(x.to)
BY DEF References, DirectoryReferences, FleetReferences, UserReferences, DutyReferences, EventReferences,
       OfficerReferences, ExitReferences, AttendanceReferences, Refers, Depth

\* What is taken next belongs to what was taken last, and so to a table further down.
LEMMA TakenDescends ==
  ASSUME RowsFit(db), NEW less, NEW gone, Taken(less) \subseteq gone, NEW n \in Int,
         \A y \in gone \ less : Depth(Table[y]) <= n
  PROVE  \A x \in Taken(gone) \ gone : Depth(Table[x]) <= n - 1
<1> SUFFICES ASSUME NEW x \in Taken(gone), x \notin gone
             PROVE  Depth(Table[x]) <= n - 1
  OBVIOUS
<1>1. x \in Rows /\ RefersTo(x, gone, "CASCADE") # {}
  BY DEF Taken
<1>2. PICK y \in ReferencesOf[Table[x]] : y.onDelete = "CASCADE" /\ Exists(x) /\ db[x][y.field] \in gone
  BY <1>1 DEF RefersTo
<1>3. y \in References /\ y.of = Table[x] /\ y.to \in Tables
  BY <1>1, TableOf DEF ReferencesOf, Tables
<1>4. Table[db[x][y.field]] = y.to
  BY <1>1, <1>2, <1>3, RowFacts, InRows
<1>5. db[x][y.field] \notin less
  <2>1. db[x][y.field] \in less => y \in RefersTo(x, less, "CASCADE")
    BY <1>2 DEF RefersTo
  <2>2. db[x][y.field] \in less => x \in Taken(less)
    BY <2>1, <1>1 DEF Taken
  <2> QED
    BY <2>2
<1>6. Depth(y.to) <= n
  BY <1>2, <1>4, <1>5
<1>7. Depth(Table[x]) < Depth(y.to)
  BY <1>2, <1>3, CascadesDescend
<1>8. Depth(Table[x]) \in Int /\ Depth(y.to) \in Int
  BY DEF Depth
<1> QED
  BY <1>6, <1>7, <1>8

CascadesWhole == \A r \in Rows : Exists(r) => Taken(Cascade(r)) = Cascade(r)

\* The four levels that a deletion collects are all there is to collect: no row refers by a CASCADE
\* to what it takes, and is left out of it.
THEOREM CascadesWholeCorrect == Spec => []CascadesWhole
<1>1. ASSUME RowsFit(db), NEW r \in Rows, Exists(r)
      PROVE  Taken(Cascade(r)) = Cascade(r)
  <2> DEFINE L1 == Taken({r})
             L2 == Taken(L1)
             L3 == Taken(L2)
             L4 == Taken(L3)
  <2>1. \A y \in {r} \ {} : Depth(Table[y]) <= 4
    BY DEF Depth
  <2>2. Taken({}) \subseteq {r}
    BY DEF Taken, RefersTo
  <2>3. \A x \in L1 \ {r} : Depth(Table[x]) <= 4 - 1
    BY <1>1, <2>1, <2>2, TakenDescends
  <2>4. \A x \in L2 \ L1 : Depth(Table[x]) <= 3 - 1
    <3>1. \A y \in L1 \ {r} : Depth(Table[y]) <= 3
      BY <2>3
    <3> QED
      BY <1>1, <3>1, TakenDescends
  <2>5. \A x \in L3 \ L2 : Depth(Table[x]) <= 2 - 1
    <3>1. \A y \in L2 \ L1 : Depth(Table[y]) <= 2
      BY <2>4
    <3> HIDE DEF L1
    <3> QED
      BY <1>1, <3>1, TakenDescends
  <2>6. \A x \in L4 \ L3 : Depth(Table[x]) <= 1 - 1
    <3>1. \A y \in L3 \ L2 : Depth(Table[y]) <= 1
      BY <2>5
    <3> HIDE DEF L2
    <3> QED
      BY <1>1, <3>1, TakenDescends
  <2>7. \A x \in Taken(L4) \ L4 : Depth(Table[x]) <= 0 - 1
    <3>1. \A y \in L4 \ L3 : Depth(Table[y]) <= 0
      BY <2>6
    <3> HIDE DEF L3
    <3> QED
      BY <1>1, <3>1, TakenDescends
  <2>8. \A t : ~(Depth(t) <= 0 - 1)
    BY DEF Depth
  <2>9. L4 \subseteq Taken(L4) /\ L4 = Cascade(r)
    BY DEF Taken, Cascade
  <2> QED
    BY <2>7, <2>8, <2>9
<1>2. ScreensInv => CascadesWhole
  BY <1>1 DEF ScreensInv, CoreInv, RegistryInv, DataInv, CascadesWhole
<1> QED
  BY <1>2, ScreensCorrect, PTL

===============================================================================
