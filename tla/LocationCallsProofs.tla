------------------------- MODULE LocationCallsProofs -------------------------
(***************************************************************************)
(* Theorems about the two components that call the location service from   *)
(* the backend.  LocationSync: what overlapping edits, deletions and       *)
(* imports keep of the rows of locations and points, and what the service  *)
(* knows of them.  IncidentAlerts: who is found near an incident, listed   *)
(* for it and alerted.  For every value of the constants of either.        *)
(***************************************************************************)
EXTENDS LocationSync, IncidentAlerts, TLAPS

------------------------------------------------------------------------------
(* LocationSync: rows and their copies *)

\* What a request in memory m relies on when `given` are the location ids given out and
\* `homes` the locations of points: ids are never taken back, a point never moves.
MemoryOK(m, given, homes) ==
  /\ m.pc \in {"loc.put", "loc.patch", "loc.send"} => m.id \in given
  /\ m.pc = "loc.send" => m.version > 0
  /\ m.pc \in {"loc.send", "import"} => \A i \in Items : m.seen[i] \in given \cup {None}
  /\ m.pc = "point.save" => homes[m.id] # None

InFlight == \A r \in Requests : MemoryOK(req[r], used, home)

\* A row has an id that was given out, and a point a location.
Given  == \A l \in Locations : loc[l] > 0 => l \in used
Housed == \A p \in Points : point[p] > 0 => home[p] \in Locations /\ loc[home[p]] > 0

RowsOK == Given /\ Housed /\ OneRowPerItem

\* Memory m brings location l back with an organization; it sends l with one.
Carries(m, l) == m.pc \in {"loc.put", "loc.patch"} /\ m.id = l /\ m.org # None
Sends(m, l)   == m.pc = "loc.send" /\ m.id = l /\ m.org # None

\* KnownToService for every location that has an organization or may get one back unsent.
KnownOnceSent ==
  failures = 0 =>
    \A l \in Locations \ ByAdminSite :
      org[l] # None \/ (\E r \in Requests : Carries(req[r], l)) =>
        knownLoc[l] > 0 \/ \E r \in Requests : Sends(req[r], l)

IInv == TypeOK /\ InFlight /\ RowsOK /\ KnownOnceSent

\* The types of the rows.
RowTypes ==
  /\ loc    \in [Locations -> Versions]
  /\ source \in [Locations -> Items \cup {None}]
  /\ org    \in [Locations -> Owner]
  /\ orgs   \subseteq Organizations
  /\ point  \in [Points -> Versions]
  /\ home   \in [Points -> Locations \cup {None}]
  /\ used   \subseteq Locations

-----------------------------------------------------------------------------
(* Requests.                                                                         *)

\* What a thread holds at each of its steps.
LEMMA Holds ==
  ASSUME TypeOK, NEW r \in Requests
  PROVE  /\ req[r].pc \in {"loc.put", "loc.patch", "point.insert"} => req[r].id \in Locations
         /\ req[r].pc \in {"loc.put", "loc.patch", "loc.send", "import"} => req[r].org \in Owner
         /\ req[r].pc = "loc.send" =>
              /\ req[r].id \in Locations /\ req[r].version \in Versions
              /\ req[r].todo \in SUBSET Items
              /\ req[r].seen \in [Items -> Locations \cup {None}]
         /\ req[r].pc \in {"point.save", "point.send"} => req[r].id \in Points
         /\ req[r].pc = "point.send" => req[r].version \in Versions
         /\ req[r].pc = "import" =>
              /\ req[r] = [pc |-> "import", org |-> req[r].org, todo |-> req[r].todo,
                           seen |-> req[r].seen]
              /\ req[r].todo \in SUBSET Items
              /\ req[r].seen \in [Items -> Locations \cup {None}]
  BY DEF TypeOK, Request, Idle

\* The memories a thread may go on with.
LEMMA Memories ==
  /\ Idle \in Request /\ \A given, homes : MemoryOK(Idle, given, homes)
  /\ \A l \in Locations, o \in Owner, step \in {"loc.put", "loc.patch"} :
       [pc |-> step, id |-> l, org |-> o] \in Request
  /\ \A l \in Locations, v \in Versions, o \in Owner, T \in SUBSET Items,
        S \in [Items -> Locations \cup {None}] :
       [pc |-> "loc.send", id |-> l, version |-> v, org |-> o, todo |-> T, seen |-> S]
         \in Request
  /\ \A l \in Locations : [pc |-> "point.insert", id |-> l] \in Request
  /\ \A p \in Points : [pc |-> "point.save", id |-> p] \in Request
  /\ \A p \in Points, v \in Versions :
       [pc |-> "point.send", id |-> p, version |-> v] \in Request
  /\ \A o \in Owner, T \in SUBSET Items, S \in [Items -> Locations \cup {None}] :
       [pc |-> "import", org |-> o, todo |-> T, seen |-> S] \in Request
<1>1. Idle \in Request /\ \A given, homes : MemoryOK(Idle, given, homes)
  BY DEF Request, Idle, MemoryOK
<1>2. \A l \in Locations, o \in Owner, step \in {"loc.put", "loc.patch"} :
       [pc |-> step, id |-> l, org |-> o] \in Request
  BY DEF Request
<1>3. \A l \in Locations, v \in Versions, o \in Owner, T \in SUBSET Items,
         S \in [Items -> Locations \cup {None}] :
        [pc |-> "loc.send", id |-> l, version |-> v, org |-> o, todo |-> T, seen |-> S]
          \in Request
  BY DEF Request
<1>4. /\ \A l \in Locations : [pc |-> "point.insert", id |-> l] \in Request
      /\ \A p \in Points : [pc |-> "point.save", id |-> p] \in Request
  BY DEF Request
<1>5. \A p \in Points, v \in Versions :
        [pc |-> "point.send", id |-> p, version |-> v] \in Request
  BY DEF Request
<1>6. \A o \in Owner, T \in SUBSET Items, S \in [Items -> Locations \cup {None}] :
        [pc |-> "import", org |-> o, todo |-> T, seen |-> S] \in Request
  BY DEF Request
<1> QED
  BY <1>1, <1>2, <1>3, <1>4, <1>5, <1>6

\* Ids are only given out, and points only find a home.
Grow == used \subseteq used' /\ \A p \in Points : home[p] # None => home'[p] # None

\* A thread that goes on with a sound memory leaves all memories sound.
LEMMA OneMemoryChanges ==
  ASSUME TypeOK, InFlight, Grow, NEW r \in Requests, NEW m \in Request, Becomes(r, m),
         MemoryOK(m, used', home')
  PROVE  req' \in [Requests -> Request] /\ InFlight'
<1>1. req' = [req EXCEPT ![r] = m] /\ req \in [Requests -> Request]
  BY DEF Becomes, TypeOK
<1>2. ASSUME NEW q \in Requests, q # r PROVE MemoryOK(req[q], used', home')
  <2>1. MemoryOK(req[q], used, home)
    BY DEF InFlight
  <2> QED
    BY <2>1, <1>2, Holds DEF MemoryOK, Grow
<1>3. \A q \in Requests : MemoryOK(req'[q], used', home')
  BY <1>1, <1>2
<1> QED
  BY <1>1, <1>3 DEF InFlight

\* What thread r gives an organization to when it goes on with m it brings back, or sends.
Owed(r, m) ==
  \A l \in Locations :
    org'[l] # None \/ Carries(m, l) => org[l] # None \/ Carries(req[r], l) \/ Sends(m, l)

\* The service goes on knowing what it was sent, if a thread that was not sending takes a
\* step and sends what it gives an organization to.
LEMMA StillKnown ==
  ASSUME TypeOK, KnownOnceSent, NEW r \in Requests, NEW m, Becomes(r, m), ~ At(r, "loc.send"),
         UNCHANGED <<knownLoc, failures>>, Owed(r, m)
  PROVE  KnownOnceSent'
<1> SUFFICES ASSUME failures = 0, NEW l \in Locations \ ByAdminSite,
                    org'[l] # None \/ \E q \in Requests : Carries(req'[q], l),
                    \A q \in Requests : ~ Sends(req'[q], l)
             PROVE  knownLoc[l] > 0
  BY DEF KnownOnceSent, Carries, Sends
<1>1. req' = [req EXCEPT ![r] = m] /\ req \in [Requests -> Request]
  BY DEF Becomes, TypeOK
<1>2. req'[r] = m /\ \A q \in Requests \ {r} : req'[q] = req[q]
  BY <1>1
<1>3. org[l] # None \/ \E q \in Requests : Carries(req[q], l)
  BY <1>2 DEF Owed
<1>4. \A q \in Requests : ~ Sends(req[q], l)
  BY <1>2 DEF Sends, At
<1> QED
  BY <1>3, <1>4 DEF KnownOnceSent

\* A thread that changes no organization and loads no location owes nothing.
LEMMA NothingOwed ==
  ASSUME org' = org, NEW r, NEW m, m.pc \notin {"loc.put", "loc.patch"}
  PROVE  Owed(r, m)
  BY DEF Owed, Carries

\* ... and all of the invariant holds again, given that the rows are sound.
LEMMA ThreadMoves ==
  ASSUME IInv, NEW r \in Requests, NEW m \in Request, Becomes(r, m), ~ At(r, "loc.send"),
         MemoryOK(m, used', home'), Grow, RowTypes', RowsOK', saves' \in Versions,
         UNCHANGED <<known, failures>>, Owed(r, m)
  PROVE  IInv'
<1>1. req' \in [Requests -> Request] /\ InFlight'
  BY OneMemoryChanges DEF IInv
<1>2. KnownOnceSent'
  BY StillKnown DEF IInv, known
<1>3. TypeOK'
  BY <1>1 DEF IInv, TypeOK, RowTypes, known
<1> QED
  BY <1>1, <1>2, <1>3 DEF IInv

-----------------------------------------------------------------------------
(* Rows.                                                                             *)

\* Nothing changes.
LEMMA SameRows ==
  ASSUME IInv, UNCHANGED rows
  PROVE  Grow /\ RowTypes' /\ RowsOK' /\ used' = used /\ org' = org
  BY DEF IInv, TypeOK, rows, Grow, RowTypes, RowsOK, Given, Housed, OneRowPerItem

\* The number of the next save.
LEMMA NextSave == Stamp /\ TypeOK => /\ saves' \in Versions
                                     /\ saves + 1 \in Versions /\ saves + 1 > 0
  BY SyncAssumption DEF Stamp, TypeOK, Versions

\* A location is written, with no other row of its item.
LEMMA WriteKeeps ==
  ASSUME IInv, NEW l \in Locations, NEW i \in Items \cup {None}, NEW o, Stamp, Write(l, i, o)
  PROVE  /\ Grow /\ RowTypes' /\ RowsOK' /\ used' = used \cup {l}
         /\ o \in Owner /\ org' = [org EXCEPT ![l] = o]
<1>1. saves + 1 \in Versions /\ saves + 1 > 0
  BY NextSave DEF IInv
<1>2. /\ loc' = [loc EXCEPT ![l] = saves + 1] /\ source' = [source EXCEPT ![l] = i]
      /\ org' = [org EXCEPT ![l] = o] /\ o \in orgs \cup {None} /\ orgs' = orgs
      /\ used' = used \cup {l} /\ point' = point /\ home' = home
      /\ \A m \in Locations \ {l} : loc[m] > 0 /\ i # None => source[m] # i
  BY DEF Write
<1>3. RowTypes /\ Given /\ Housed /\ OneRowPerItem
  BY DEF IInv, TypeOK, RowTypes, RowsOK
<1>4. Grow /\ RowTypes' /\ o \in Owner
  BY <1>1, <1>2, <1>3 DEF Grow, RowTypes, Owner
<1>5. Given' /\ Housed'
  BY <1>1, <1>2, <1>3 DEF Given, Housed, RowTypes
<1>6. OneRowPerItem'
  BY <1>2, <1>3 DEF OneRowPerItem, RowTypes
<1> QED
  BY <1>2, <1>4, <1>5, <1>6 DEF RowsOK

\* A point is written, into a location that is there.
LEMMA WritePointKeeps ==
  ASSUME IInv, NEW p \in Points, Stamp, UNCHANGED <<loc, source, org, orgs, used>>,
         point' = [point EXCEPT ![p] = saves + 1],
         NEW l \in Locations, home' = [home EXCEPT ![p] = l], loc[l] > 0,
         home[p] \in {None, l}
  PROVE  Grow /\ RowTypes' /\ RowsOK'
<1>1. saves + 1 \in Versions /\ saves + 1 > 0
  BY NextSave DEF IInv
<1>2. RowTypes /\ Given /\ Housed /\ OneRowPerItem /\ l # None
  BY SyncAssumption DEF IInv, TypeOK, RowTypes, RowsOK
<1>3. Grow /\ RowTypes'
  BY <1>1, <1>2 DEF Grow, RowTypes
<1>4. Given' /\ OneRowPerItem'
  BY <1>2 DEF Given, OneRowPerItem
<1>5. Housed'
  BY <1>2 DEF Housed, RowTypes
<1> QED
  BY <1>3, <1>4, <1>5 DEF RowsOK

-----------------------------------------------------------------------------
(* The steps.                                                                        *)

\* Locations: views.
LEMMA LocationStepsSound ==
  ASSUME IInv, NEW r \in Requests, LocationSteps(r), ~ At(r, "loc.send")
  PROVE  IInv'
<1> USE DEF At
<1>1. TypeOK /\ InFlight /\ Given /\ saves \in Versions
  BY DEF IInv, RowsOK, TypeOK
<1>2. NoItems \in [Items -> Locations \cup {None}] /\ \A i \in Items : NoItems[i] = None
  BY DEF NoItems
<1>3. ASSUME NEW l \in Locations, NEW i \in Items \cup {None}, NEW o, Stamp, Write(l, i, o),
             Becomes(r, Sending(l, o, {}, NoItems)), UNCHANGED <<known, failures>>
      PROVE  IInv'
  <2>1. /\ Grow /\ RowTypes' /\ RowsOK' /\ used' = used \cup {l}
        /\ o \in Owner /\ org' = [org EXCEPT ![l] = o]
    BY <1>3, WriteKeeps
  <2>2. saves' \in Versions /\ saves + 1 \in Versions /\ saves + 1 > 0
    BY <1>1, <1>3, NextSave
  <2>3. PICK m : m = Sending(l, o, {}, NoItems)
    OBVIOUS
  <2>4. m \in Request
    BY <1>2, <2>1, <2>2, <2>3, Memories DEF Sending
  <2>5. MemoryOK(m, used', home') /\ m.pc = "loc.send" /\ m.id = l /\ m.org = o
    BY <1>2, <2>1, <2>2, <2>3 DEF Sending, MemoryOK
  <2>6. Owed(r, m)
    BY <1>1, <2>1, <2>5 DEF Owed, Carries, Sends, TypeOK
  <2> QED
    BY <1>3, <2>1, <2>2, <2>3, <2>4, <2>5, <2>6, ThreadMoves
<1>4. CASE CreateLocation(r)
  <2>1. PICK l \in Locations, o \in Owner :
          /\ Stamp /\ Write(l, None, o) /\ UNCHANGED <<known, failures>>
          /\ Becomes(r, Sending(l, o, {}, NoItems))
    BY <1>4 DEF CreateLocation
  <2> QED
    BY <1>3, <2>1
<1>5. ASSUME NEW l \in Locations, NEW step \in {"loc.put", "loc.patch"},
             LoadLocation(r, l, step)
      PROVE  IInv'
  <2>1. PICK m \in Request : m = [pc |-> step, id |-> l, org |-> org[l]]
    BY <1>1, Memories DEF TypeOK
  <2>2. /\ Becomes(r, m) /\ loc[l] > 0
        /\ UNCHANGED rows /\ UNCHANGED <<known, failures>> /\ saves' = saves
    BY <1>5, <2>1 DEF LoadLocation
  <2>3. MemoryOK(m, used', home')
    BY <1>1, <2>1, <2>2 DEF MemoryOK, Given, rows
  <2>4. Owed(r, m)
    BY <2>1, <2>2 DEF Owed, Carries, rows
  <2> QED
    BY <1>1, <2>2, <2>3, <2>4, SameRows, ThreadMoves
<1>6. CASE SaveLocation(r)
  <2> DEFINE l == req[r].id
             o == req[r].org
  <2>1. l \in Locations /\ source[l] \in Items \cup {None}
    BY <1>1, <1>6, Holds DEF SaveLocation, TypeOK
  <2>2. l \in used
    BY <1>1, <1>6 DEF InFlight, MemoryOK, SaveLocation
  <2>3. CASE Stamp /\ Write(l, source[l], o) /\ At(r, "loc.put")
    <3>1. Becomes(r, Sending(l, o, {}, NoItems)) /\ UNCHANGED <<known, failures>>
      BY <1>6, <2>3 DEF SaveLocation, Stamp, Write, Refused
    <3> QED
      BY <1>3, <2>1, <2>3, <3>1
  <2>4. CASE Stamp /\ Write(l, source[l], o) /\ ~ At(r, "loc.put")
    <3>1. Becomes(r, Idle) /\ UNCHANGED <<known, failures>>
      BY <1>6, <2>4 DEF SaveLocation
    <3>2. Grow /\ RowTypes' /\ RowsOK' /\ org' = [org EXCEPT ![l] = o]
      BY <2>1, <2>2, <2>4, WriteKeeps
    <3>3. saves' \in Versions
      BY <1>1, <2>4, NextSave
    <3>4. Owed(r, Idle)
      BY <1>1, <1>6, <3>2 DEF Owed, Carries, Idle, SaveLocation, TypeOK
    <3> QED
      BY <3>1, <3>2, <3>3, <3>4, ThreadMoves, Memories
  <2>5. CASE UNCHANGED <<rows, saves>> /\ Becomes(r, Idle)
    <3>1. UNCHANGED <<known, failures>>
      BY <1>6 DEF SaveLocation
    <3>2. Owed(r, Idle)
      BY <2>5, NothingOwed DEF Idle, rows
    <3> QED
      BY <1>1, <2>5, <3>1, <3>2, SameRows, ThreadMoves, Memories
  <2> QED
    BY <1>6, <2>3, <2>4, <2>5 DEF SaveLocation
<1>7. ~ SendLocation(r)
  BY DEF SendLocation
<1> QED
  BY <1>4, <1>5, <1>6, <1>7 DEF LocationSteps

\* A location is sent.
LEMMA SendSound ==
  ASSUME IInv, NEW r \in Requests, SendLocation(r)
  PROVE  IInv'
<1>1. TypeOK /\ InFlight /\ At(r, "loc.send")
  BY DEF IInv, SendLocation
<1>2. PICK m : m = req[r]
  OBVIOUS
<1>3. /\ m.id \in Locations /\ m.version \in Versions /\ m.todo \in SUBSET Items
      /\ m.seen \in [Items -> Locations \cup {None}] /\ m.org \in Owner
  BY <1>1, <1>2, Holds DEF At
<1>4. m.version > 0 /\ \A i \in Items : m.seen[i] \in used \cup {None}
  BY <1>1, <1>2 DEF At, InFlight, MemoryOK
<1>5. /\ UNCHANGED rows /\ knownPoint' = knownPoint /\ saves' = saves
      /\ \/ /\ m.org # None
            /\ knownLoc' = [knownLoc EXCEPT ![m.id] = m.version] /\ failures' = failures
         \/ m.org = None /\ knownLoc' = knownLoc /\ failures' = failures
         \/ failures < MaxFailures /\ failures' = failures + 1 /\ knownLoc' = knownLoc
  BY <1>2 DEF SendLocation, UpdatePaligon
<1>6. PICK n \in Request : Becomes(r, n) /\ MemoryOK(n, used', home')
                            /\ n.pc \in {"idle", "import"}
  <2>1. CASE m.todo = {}
    BY <1>2, <2>1, Memories DEF SendLocation, Idle
  <2>2. CASE m.todo # {}
    <3>1. PICK n \in Request :
            n = [pc |-> "import", org |-> m.org, todo |-> m.todo, seen |-> m.seen]
      BY <1>3, Memories
    <3>2. Becomes(r, n)
      BY <1>2, <2>2, <3>1 DEF SendLocation
    <3>3. MemoryOK(n, used', home')
      BY <1>4, <1>5, <3>1 DEF MemoryOK, rows
    <3> QED
      BY <3>1, <3>2, <3>3
  <2> QED
    BY <2>1, <2>2
<1>7. Grow /\ RowTypes' /\ RowsOK' /\ used' = used /\ org' = org
  BY <1>5, SameRows
<1>8. req' \in [Requests -> Request] /\ InFlight'
  BY <1>1, <1>6, <1>7, OneMemoryChanges
<1>9. TypeOK'
  BY <1>1, <1>3, <1>5, <1>7, <1>8, SyncAssumption DEF TypeOK, RowTypes
<1>10. KnownOnceSent'
  <2> SUFFICES ASSUME failures' = 0, NEW l \in Locations \ ByAdminSite,
                      org[l] # None \/ \E q \in Requests : Carries(req'[q], l),
                      \A q \in Requests : ~ Sends(req'[q], l)
               PROVE  knownLoc'[l] > 0
    BY <1>7 DEF KnownOnceSent, Carries, Sends
  <2>1. /\ failures = 0 /\ knownLoc \in [Locations -> Versions]
        /\ \/ m.org # None /\ knownLoc' = [knownLoc EXCEPT ![m.id] = m.version]
           \/ m.org = None /\ knownLoc' = knownLoc
    BY <1>1, <1>5 DEF TypeOK
  <2>2. req'[r] = n /\ \A q \in Requests \ {r} : req'[q] = req[q]
    BY <1>1, <1>6 DEF Becomes, TypeOK
  <2>3. org[l] # None \/ \E q \in Requests : Carries(req[q], l)
    BY <1>6, <2>2 DEF Carries
  <2>4. CASE Sends(m, l)
    BY <1>3, <1>4, <2>1, <2>4 DEF Sends
  <2>5. CASE ~ Sends(m, l)
    <3>1. \A q \in Requests : ~ Sends(req[q], l)
      BY <1>2, <2>2, <2>5
    <3>2. knownLoc[l] > 0
      BY <2>1, <2>3, <3>1 DEF KnownOnceSent, IInv
    <3> QED
      BY <1>1, <1>2, <1>4, <2>1, <2>5, <3>2 DEF At, Sends
  <2> QED
    BY <2>4, <2>5
<1> QED
  BY <1>7, <1>8, <1>9, <1>10 DEF IInv

\* The import.
LEMMA ImportStepsSound ==
  ASSUME IInv, NEW r \in Requests, ImportSteps(r)
  PROVE  IInv'
<1> USE DEF At
<1>1. TypeOK /\ InFlight /\ Given /\ saves \in Versions
  BY DEF IInv, RowsOK, TypeOK
<1>2. ASSUME UNCHANGED <<rows, saves>>, UNCHANGED <<known, failures>>, ~ At(r, "loc.send"),
             Becomes(r, Idle)
      PROVE  IInv'
  <2>1. Owed(r, Idle)
    BY <1>2, NothingOwed DEF Idle, rows
  <2> QED
    BY <1>1, <1>2, <2>1, SameRows, ThreadMoves, Memories
<1>3. CASE BeginImport(r)
  <2>1. PICK o \in orgs, seen \in [Items -> Locations \cup {None}] :
          /\ \A i \in Items : seen[i] = None \/ (seen[i] \in Locations /\ loc[seen[i]] > 0)
          /\ Becomes(r, [pc |-> "import", org |-> o, todo |-> Items, seen |-> seen])
    BY <1>3 DEF BeginImport
  <2>2. PICK m \in Request : m = [pc |-> "import", org |-> o, todo |-> Items, seen |-> seen]
    BY <1>1, <2>1, Memories DEF TypeOK, Owner
  <2>3. UNCHANGED rows /\ UNCHANGED <<known, failures>> /\ saves' = saves /\ ~ At(r, "loc.send")
    BY <1>3 DEF BeginImport
  <2>4. MemoryOK(m, used', home')
    BY <1>1, <2>1, <2>2, <2>3 DEF MemoryOK, Given, rows
  <2>5. Owed(r, m)
    BY <2>2, <2>3, NothingOwed DEF rows
  <2> QED
    BY <1>1, <2>1, <2>2, <2>3, <2>4, <2>5, SameRows, ThreadMoves
<1>4. ASSUME At(r, "import"), NEW l \in Locations, NEW i \in Items, Stamp,
             Write(l, i, req[r].org),
             Becomes(r, Sending(l, req[r].org, req[r].todo \ {i}, req[r].seen)),
             UNCHANGED <<known, failures>>
      PROVE  IInv'
  <2>0. PICK o \in Owner : o = req[r].org
    BY <1>1, <1>4, Holds
  <2>1. /\ Grow /\ RowTypes' /\ RowsOK' /\ used' = used \cup {l}
        /\ org' = [org EXCEPT ![l] = o]
    BY <1>4, <2>0, WriteKeeps
  <2>2. saves' \in Versions /\ saves + 1 \in Versions /\ saves + 1 > 0
    BY <1>1, <1>4, NextSave
  <2>3. PICK T \in SUBSET Items, S \in [Items -> Locations \cup {None}] :
          T = req[r].todo \ {i} /\ S = req[r].seen
    BY <1>1, <1>4, Holds
  <2>4. PICK m : m = Sending(l, o, T, S)
    OBVIOUS
  <2>5. m \in Request
    BY <2>0, <2>2, <2>4, Memories DEF Sending
  <2>6. \A j \in Items : S[j] \in used \cup {None}
    BY <1>1, <1>4, <2>3 DEF InFlight, MemoryOK
  <2>7. MemoryOK(m, used', home') /\ m.pc = "loc.send" /\ m.id = l /\ m.org = o
    BY <2>1, <2>2, <2>4, <2>6 DEF Sending, MemoryOK
  <2>8. Owed(r, m)
    BY <1>1, <2>1, <2>7 DEF Owed, Carries, Sends, TypeOK
  <2> QED
    BY <1>4, <2>0, <2>1, <2>2, <2>3, <2>4, <2>5, <2>7, <2>8, ThreadMoves
<1>5. ASSUME NEW i \in Items, ImportNew(r, i)
      PROVE  IInv'
  <2>1. CASE Stamp /\ \E l \in Locations \ used :
               Write(l, i, req[r].org)
                 /\ Becomes(r, Sending(l, req[r].org, req[r].todo \ {i}, req[r].seen))
    BY <1>4, <1>5, <2>1 DEF ImportNew
  <2>2. CASE Becomes(r, Idle) /\ UNCHANGED <<rows, saves>>
    BY <1>2, <1>5, <2>2 DEF ImportNew
  <2> QED
    BY <1>5, <2>1, <2>2 DEF ImportNew
<1>6. ASSUME NEW i \in Items, ImportChanged(r, i)
      PROVE  IInv'
  <2>1. req[r].seen[i] \in Locations
    BY <1>1, <1>6, Holds DEF ImportChanged
  <2>2. CASE Stamp /\ Write(req[r].seen[i], i, req[r].org)
               /\ Becomes(r, Sending(req[r].seen[i], req[r].org, req[r].todo \ {i},
                                     req[r].seen))
    BY <1>4, <1>6, <2>1, <2>2 DEF ImportChanged
  <2>3. CASE Becomes(r, Idle) /\ UNCHANGED <<rows, saves>>
    BY <1>2, <1>6, <2>3 DEF ImportChanged
  <2> QED
    BY <1>6, <2>2, <2>3 DEF ImportChanged
<1>7. ASSUME NEW i \in Items, ImportSame(r, i)
      PROVE  IInv'
  <2>1. /\ At(r, "import") /\ UNCHANGED <<rows, saves>> /\ UNCHANGED <<known, failures>>
        /\ Becomes(r, IF req[r].todo \ {i} = {} THEN Idle
                      ELSE [req[r] EXCEPT !.todo = req[r].todo \ {i}])
    BY <1>7 DEF ImportSame
  <2>2. CASE req[r].todo \ {i} = {}
    BY <1>2, <2>1, <2>2
  <2>3. CASE req[r].todo \ {i} # {}
    <3>1. PICK o \in Owner, T \in SUBSET Items, S \in [Items -> Locations \cup {None}] :
            /\ T = req[r].todo \ {i} /\ S = req[r].seen
            /\ req[r] = [pc |-> "import", org |-> o, todo |-> req[r].todo, seen |-> S]
      BY <1>1, <2>1, Holds
    <3>2. PICK m \in Request : m = [pc |-> "import", org |-> o, todo |-> T, seen |-> S]
      BY Memories
    <3>3. [req[r] EXCEPT !.todo = T] = m
      BY <3>1, <3>2
    <3>4. Becomes(r, m)
      BY <2>1, <2>3, <3>1, <3>3
    <3>5. MemoryOK(m, used', home')
      BY <1>1, <2>1, <3>1, <3>2 DEF InFlight, MemoryOK, rows
    <3>6. Owed(r, m)
      BY <2>1, <3>2, NothingOwed DEF rows
    <3> QED
      BY <1>1, <2>1, <3>2, <3>4, <3>5, <3>6, SameRows, ThreadMoves
  <2> QED
    BY <2>2, <2>3
<1> QED
  BY <1>3, <1>5, <1>6, <1>7 DEF ImportSteps

\* Points.
LEMMA PointStepsSound ==
  ASSUME IInv, NEW r \in Requests, PointSteps(r)
  PROVE  IInv'
<1> USE DEF At
<1>1. TypeOK /\ InFlight /\ Given /\ Housed /\ saves \in Versions
  BY DEF IInv, RowsOK, TypeOK
<1>2. ASSUME UNCHANGED <<rows, saves>>, UNCHANGED <<known, failures>>, ~ At(r, "loc.send"),
             NEW m \in Request, Becomes(r, m), m.pc \in {"idle", "point.insert"}
      PROVE  IInv'
  <2>1. MemoryOK(m, used', home')
    BY <1>2 DEF MemoryOK
  <2>2. Owed(r, m)
    BY <1>2, NothingOwed DEF rows
  <2> QED
    BY <1>1, <1>2, <2>1, <2>2, SameRows, ThreadMoves
<1>3. Idle \in Request /\ Idle.pc = "idle"
  BY Memories DEF Idle
<1>4. ASSUME NEW l \in Locations, LoadForPoint(r, l)
      PROVE  IInv'
  BY <1>2, <1>4, Memories DEF LoadForPoint
<1>5. ASSUME NEW p \in Points, NEW l \in Locations, Stamp, ~ At(r, "loc.send"), loc[l] > 0,
             UNCHANGED <<loc, source, org, orgs, used>>, UNCHANGED <<known, failures>>,
             point' = [point EXCEPT ![p] = saves + 1],
             home' = [home EXCEPT ![p] = l], home[p] \in {None, l},
             Becomes(r, [pc |-> "point.send", id |-> p, version |-> saves + 1])
      PROVE  IInv'
  <2>1. Grow /\ RowTypes' /\ RowsOK'
    BY <1>5, WritePointKeeps
  <2>2. saves' \in Versions /\ saves + 1 \in Versions
    BY <1>1, <1>5, NextSave
  <2>3. PICK m \in Request : m = [pc |-> "point.send", id |-> p, version |-> saves + 1]
    BY <2>2, Memories
  <2>4. MemoryOK(m, used', home')
    BY <2>3 DEF MemoryOK
  <2>5. Owed(r, m)
    BY <1>5, <2>3, NothingOwed
  <2> QED
    BY <1>5, <2>1, <2>2, <2>3, <2>4, <2>5, ThreadMoves
<1>6. CASE InsertPoint(r)
  <2>1. req[r].id \in Locations /\ UNCHANGED <<known, failures>> /\ ~ At(r, "loc.send")
    BY <1>1, <1>6, Holds DEF InsertPoint
  <2>2. CASE loc[req[r].id] > 0
    <3>0. loc[req[r].id] # 0
      BY <1>1, <2>1, <2>2 DEF TypeOK, Versions
    <3>1. \E p \in Points :
            /\ home[p] = None
            /\ home'  = [home EXCEPT ![p] = req[r].id]
            /\ point' = [point EXCEPT ![p] = saves + 1]
            /\ Becomes(r, [pc |-> "point.send", id |-> p, version |-> saves + 1])
      BY <1>6, <3>0 DEF InsertPoint
    <3>2. Stamp /\ UNCHANGED <<loc, source, org, orgs, used>>
      BY <1>6, <3>0 DEF InsertPoint
    <3> QED
      BY <1>5, <2>1, <2>2, <3>1, <3>2
  <2>3. CASE Becomes(r, Idle) /\ UNCHANGED <<rows, saves>>
    BY <1>2, <1>3, <2>1, <2>3
  <2> QED
    BY <1>6, <2>2, <2>3 DEF InsertPoint
<1>7. ASSUME NEW p \in Points, LoadPoint(r, p)
      PROVE  IInv'
  <2>1. PICK m \in Request : m = [pc |-> "point.save", id |-> p]
    BY Memories
  <2>2. /\ Becomes(r, m) /\ point[p] > 0 /\ ~ At(r, "loc.send")
        /\ UNCHANGED rows /\ UNCHANGED <<known, failures>> /\ saves' = saves
    BY <1>7, <2>1 DEF LoadPoint
  <2>3. MemoryOK(m, used', home')
    BY <1>1, <2>1, <2>2, SyncAssumption DEF MemoryOK, Housed, rows
  <2>4. Owed(r, m)
    BY <2>1, <2>2, NothingOwed DEF rows
  <2> QED
    BY <1>1, <2>2, <2>3, <2>4, SameRows, ThreadMoves
<1>8. CASE SavePoint(r)
  <2>1. /\ req[r].id \in Points /\ UNCHANGED <<known, failures>> /\ ~ At(r, "loc.send")
        /\ home[req[r].id] # None
    BY <1>1, <1>8, Holds DEF SavePoint, InFlight, MemoryOK
  <2>2. PICK p \in Points, l \in Locations : p = req[r].id /\ l = home[p]
    BY <1>1, <2>1 DEF TypeOK
  <2>3. CASE loc[l] > 0 /\ Stamp /\ point' = [point EXCEPT ![p] = saves + 1]
             /\ Becomes(r, [pc |-> "point.send", id |-> p, version |-> saves + 1])
             /\ UNCHANGED <<loc, source, org, orgs, home, used>>
    <3>1. home' = [home EXCEPT ![p] = l]
      BY <1>1, <2>2, <2>3 DEF TypeOK
    <3> QED
      BY <1>5, <2>1, <2>2, <2>3, <3>1
  <2>4. CASE Becomes(r, Idle) /\ UNCHANGED <<rows, saves>>
    BY <1>2, <1>3, <2>1, <2>4
  <2> QED
    BY <1>8, <2>2, <2>3, <2>4 DEF SavePoint
<1>9. CASE SendPoint(r)
  <2>1. /\ At(r, "point.send") /\ Becomes(r, Idle)
        /\ UNCHANGED rows /\ knownLoc' = knownLoc /\ saves' = saves
        /\ failures' \in {failures, failures + 1} /\ failures' \in 0 .. MaxFailures
    BY <1>1, <1>9, SyncAssumption DEF SendPoint, TypeOK
  <2>2. knownPoint' \in [Points -> Versions]
    BY <1>1, <1>9, Holds DEF SendPoint, TypeOK
  <2>3. Grow /\ RowTypes' /\ RowsOK' /\ used' = used /\ org' = org
    BY <2>1, SameRows
  <2>4. req' \in [Requests -> Request] /\ InFlight'
    BY <1>1, <2>1, <2>3, Memories, OneMemoryChanges
  <2>5. TypeOK'
    BY <1>1, <2>1, <2>2, <2>3, <2>4 DEF TypeOK, RowTypes
  <2>6. KnownOnceSent'
    <3> SUFFICES ASSUME failures' = 0, NEW l \in Locations \ ByAdminSite,
                        org[l] # None \/ \E q \in Requests : Carries(req'[q], l),
                        \A q \in Requests : ~ Sends(req'[q], l)
                 PROVE  knownLoc[l] > 0
      BY <2>1, <2>3 DEF KnownOnceSent, Carries, Sends
    <3>1. failures = 0
      BY <1>1, <2>1 DEF TypeOK
    <3>2. req'[r] = Idle /\ \A q \in Requests \ {r} : req'[q] = req[q]
      BY <1>1, <2>1 DEF Becomes, TypeOK
    <3>3. org[l] # None \/ \E q \in Requests : Carries(req[q], l)
      BY <3>2 DEF Carries, Idle
    <3>4. \A q \in Requests : ~ Sends(req[q], l)
      BY <2>1, <3>2 DEF Sends
    <3> QED
      BY <3>1, <3>3, <3>4 DEF KnownOnceSent, IInv
  <2> QED
    BY <2>3, <2>4, <2>5, <2>6 DEF IInv
<1> QED
  BY <1>4, <1>6, <1>7, <1>8, <1>9 DEF PointSteps

\* The steps of nobody's thread: deletions, organizations that return and the admin site.
LEMMA RowStepsSound ==
  ASSUME IInv,
         \/ \E l \in Locations : DeleteLocation(l) \/ SaveByAdminSite(l)
         \/ \E p \in Points : DeletePoint(p)
         \/ \E o \in Organizations : DeleteOrganization(o) \/ ReinsertOrganization(o)
  PROVE  IInv'
<1>1. TypeOK /\ InFlight /\ Given /\ Housed /\ OneRowPerItem /\ KnownOnceSent /\ RowTypes
  BY DEF IInv, RowsOK, TypeOK, RowTypes
<1>2. ASSUME Grow, RowTypes', RowsOK', UNCHANGED <<known, req, failures>>, saves' \in Versions,
             \A l \in Locations \ ByAdminSite : org'[l] # None => org[l] # None
      PROVE  IInv'
  <2>1. TypeOK'
    BY <1>1, <1>2 DEF TypeOK, RowTypes, known
  <2>2. InFlight'
    <3> SUFFICES ASSUME NEW r \in Requests PROVE MemoryOK(req[r], used', home')
      BY <1>2 DEF InFlight
    <3>1. MemoryOK(req[r], used, home)
      BY <1>1 DEF InFlight
    <3> QED
      BY <1>1, <1>2, <3>1, Holds DEF MemoryOK, Grow
  <2>3. KnownOnceSent'
    BY <1>1, <1>2 DEF KnownOnceSent, known
  <2> QED
    BY <1>2, <2>1, <2>2, <2>3 DEF IInv
<1>3. ASSUME NEW l \in Locations, DeleteLocation(l)
      PROVE  IInv'
  <2>1. /\ loc' = [loc EXCEPT ![l] = 0]
        /\ org' = [org EXCEPT ![l] = None]
        /\ point' = [p \in Points |-> IF home[p] = l THEN 0 ELSE point[p]]
        /\ UNCHANGED <<source, orgs, home, used>> /\ UNCHANGED <<known, req, failures>>
        /\ saves' = saves
    BY <1>3 DEF DeleteLocation
  <2>2. Grow /\ RowTypes'
    BY <1>1, <2>1, SyncAssumption DEF Grow, RowTypes, Versions, Owner
  <2>3. Given' /\ OneRowPerItem'
    BY <1>1, <2>1 DEF Given, OneRowPerItem, RowTypes
  <2>4. Housed'
    BY <1>1, <2>1 DEF Housed, RowTypes
  <2> QED
    BY <1>1, <1>2, <2>1, <2>2, <2>3, <2>4 DEF RowsOK, RowTypes, TypeOK
<1>4. ASSUME NEW l \in Locations, SaveByAdminSite(l)
      PROVE  IInv'
  <2>1. PICK o \in Owner : /\ l \in ByAdminSite /\ Stamp /\ Write(l, source[l], o)
                           /\ UNCHANGED <<known, req, failures>>
    BY <1>4 DEF SaveByAdminSite
  <2>2. source[l] \in Items \cup {None}
    BY <1>1 DEF RowTypes
  <2>3. Grow /\ RowTypes' /\ RowsOK' /\ org' = [org EXCEPT ![l] = o]
    BY <2>1, <2>2, WriteKeeps
  <2>4. saves' \in Versions
    BY <1>1, <2>1, NextSave
  <2> QED
    BY <1>1, <1>2, <2>1, <2>3, <2>4 DEF RowTypes
<1>5. ASSUME NEW p \in Points, DeletePoint(p)
      PROVE  IInv'
  <2>1. /\ point' = [point EXCEPT ![p] = 0]
        /\ UNCHANGED <<loc, source, org, orgs, home, used>> /\ UNCHANGED <<known, req, failures>>
        /\ saves' = saves
    BY <1>5 DEF DeletePoint
  <2>2. Grow /\ RowTypes'
    BY <1>1, <2>1, SyncAssumption DEF Grow, RowTypes, Versions
  <2>3. Given' /\ OneRowPerItem' /\ Housed'
    BY <1>1, <2>1 DEF Given, OneRowPerItem, Housed, RowTypes
  <2> QED
    BY <1>1, <1>2, <2>1, <2>2, <2>3 DEF RowsOK, TypeOK
<1>6. ASSUME NEW o \in Organizations, DeleteOrganization(o) \/ ReinsertOrganization(o)
      PROVE  IInv'
  <2>1. /\ org' = [l \in Locations |-> IF org[l] = o THEN None ELSE org[l]] \/ org' = org
        /\ orgs' \in {orgs \ {o}, orgs \cup {o}}
        /\ UNCHANGED <<loc, source, point, home, used>> /\ UNCHANGED <<known, req, failures>>
        /\ saves' = saves
    BY <1>6 DEF DeleteOrganization, ReinsertOrganization
  <2>2. Grow /\ RowTypes'
    BY <1>1, <2>1 DEF Grow, RowTypes, Owner
  <2>3. Given' /\ OneRowPerItem' /\ Housed'
    BY <1>1, <2>1 DEF Given, OneRowPerItem, Housed
  <2>4. \A l \in Locations : org'[l] # None => org[l] # None
    BY <1>1, <2>1 DEF RowTypes
  <2> QED
    BY <1>1, <1>2, <2>1, <2>2, <2>3, <2>4 DEF RowsOK, TypeOK
<1> QED
  BY <1>3, <1>4, <1>5, <1>6

-----------------------------------------------------------------------------
(* The theorems.                                                                     *)

LEMMA IInvInitially == Init => IInv
<1> SUFFICES ASSUME Init PROVE IInv
  OBVIOUS
<1>1. TypeOK
  BY Memories, SyncAssumption DEF Init, TypeOK, Versions, Owner
<1>2. InFlight
  BY Memories DEF Init, InFlight
<1>3. RowsOK /\ KnownOnceSent
  BY DEF Init, RowsOK, Given, Housed, OneRowPerItem, KnownOnceSent, Carries, Idle
<1> QED
  BY <1>1, <1>2, <1>3 DEF IInv

LEMMA IInvPreserved == IInv /\ [Next]_vars => IInv'
<1> SUFFICES ASSUME IInv, [Next]_vars PROVE IInv'
  OBVIOUS
<1>1. ASSUME NEW r \in Requests, LocationSteps(r)
      PROVE  IInv'
  <2>1. CASE At(r, "loc.send")
    <3>1. SendLocation(r)
      BY <1>1, <2>1 DEF LocationSteps, CreateLocation, LoadLocation, SaveLocation, At
    <3> QED
      BY <3>1, SendSound
  <2> QED
    BY <1>1, <2>1, LocationStepsSound
<1>2. CASE UNCHANGED vars
  <2>1. UNCHANGED <<loc, source, org, orgs, point, home, used>> /\ UNCHANGED <<knownLoc, knownPoint>>
        /\ UNCHANGED <<req, saves, failures>>
    BY <1>2 DEF vars, rows, known
  <2> QED
    BY <2>1 DEF IInv, TypeOK, InFlight, MemoryOK, RowsOK, Given, Housed, OneRowPerItem,
                KnownOnceSent, Carries, Sends
<1> QED
  BY <1>1, <1>2, ImportStepsSound, PointStepsSound, RowStepsSound DEF Next

LEMMA IInvHolds == Spec => []IInv
  BY IInvInitially, IInvPreserved, PTL DEF Spec

\* The rows, the copies and what requests hold keep their types: no call names a row of
\* another table, and no counter passes its bound.
THEOREM TypeCorrect == Spec => []TypeOK
<1>1. IInv => TypeOK
  BY DEF IInv
<1> QED
  BY <1>1, IInvHolds, PTL

\* Overlapping runs of the import, edits from stale rows and deletions leave at most one
\* row of an external item.
THEOREM OneRowPerItemHolds == Spec => []OneRowPerItem
<1>1. IInv => OneRowPerItem
  BY DEF IInv, RowsOK
<1> QED
  BY <1>1, IInvHolds, PTL

\* No point outlives its location, whatever overlaps the deletion.
THEOREM NoOrphanPointsHolds == Spec => []NoOrphanPoints
<1>1. IInv => NoOrphanPoints
  BY DEF IInv, RowsOK, Housed, NoOrphanPoints
<1> QED
  BY <1>1, IInvHolds, PTL

\* If no call was lost, the service has a copy of every location with an organization that
\* nobody is sending and that the admin site did not make, through deletions of the location
\* or of the organization and stale saves that bring either back.
THEOREM KnownToServiceHolds == Spec => []KnownToService
<1>1. IInv => KnownToService
  BY DEF IInv, KnownOnceSent, KnownToService, SendingOf, Sends, At
<1> QED
  BY <1>1, IInvHolds, PTL

------------------------------------------------------------------------------
(* IncidentAlerts: who is listed and alerted *)

USE AlertsAssumption, SessionAssumption

------------------------------------------------------------------------------
(* The inductive invariant *)

\* The crews of days that were approved, or whose duty was opened: nobody leaves them.
OnDuty == {e \in Employees : \E s \in Sections : e \in Crew[s] /\ section[s] \notin {"planned", "viewed"}}

\* What a task may rely on, long after it loaded its sections: the employees it has found are
\* among those (duty), and the row of the one it is about to push was written (listed).
TaskSound(m, duty, listed) ==
  /\ m.pc = "ask" => m.crew \cup m.near \subseteq duty
  /\ m.pc = "alert" => m.near \subseteq duty
  /\ m.pc = "push" => m.near \cup {m.to} \subseteq duty /\ listed[m.card][m.to] # "none"

TasksSound == \A t \in Tasks : TaskSound(task[t], OnDuty, row)

\* Each delivery queues one message at most, and leaves a place.
Counted ==
  \A c \in Cards :
    /\ saved[c] + queue[c] <= receipts[c]
    /\ receipts[c] > 0 => place[c] \in Places \cup {Nowhere}

ListedOnDuty == \A c \in Cards, e \in Employees : row[c][e] # "none" => e \in OnDuty

AlertsIInv == AlertsTypeOK /\ Counted /\ TasksSound /\ ListedOnDuty /\ PushedIsListed

------------------------------------------------------------------------------
(* The states of a task *)

LEMMA TaskFields ==
  ASSUME NEW m \in TaskStates
  PROVE  /\ m.pc \in {"idle", "load", "ask", "alert", "push"}
         /\ m # IdleTask => m.pc # "idle" /\ m.card \in Cards
         /\ m.pc = "load" => m.card \in Cards /\ m.place \in Places
         /\ m.pc = "ask" => /\ m.card \in Cards /\ m.place \in Places /\ m.todo \in SUBSET Sections
                            /\ m.crew \in SUBSET Employees /\ m.near \in SUBSET Employees
         /\ m.pc = "alert" => m.card \in Cards /\ m.near \in SUBSET Employees
         /\ m.pc = "push" => m.card \in Cards /\ m.near \in SUBSET Employees /\ m.to \in Employees
BY DEF TaskStates, IdleTask

LEMMA IdleIsSound == IdleTask \in TaskStates /\ \A duty, listed : TaskSound(IdleTask, duty, listed)
  BY DEF IdleTask, TaskStates, TaskSound

LEMMA AlertingIsSound ==
  ASSUME NEW c \in Cards, NEW near \in SUBSET Employees, NEW duty, NEW listed, near \subseteq duty
  PROVE  Alerting(c, near) \in TaskStates /\ TaskSound(Alerting(c, near), duty, listed)
<1>1. CASE near = {}
  BY <1>1, IdleIsSound DEF Alerting
<1>2. CASE near # {}
  BY <1>2 DEF Alerting, TaskStates, TaskSound
<1> QED
  BY <1>1, <1>2

LEMMA AskingIsSound ==
  ASSUME NEW c \in Cards, NEW p \in Places, NEW todo \in SUBSET Sections,
         NEW crew \in SUBSET Employees, NEW near \in SUBSET Employees, NEW duty, NEW listed,
         crew \cup near \subseteq duty
  PROVE  Asking(c, p, todo, crew, near) \in TaskStates
         /\ TaskSound(Asking(c, p, todo, crew, near), duty, listed)
<1>1. CASE todo = {}
  BY <1>1, AlertingIsSound DEF Asking
<1>2. CASE todo # {}
  BY <1>2 DEF Asking, TaskStates, TaskSound
<1> QED
  BY <1>1, <1>2

\* One task goes on; nobody leaves duty and no row is taken back.
LEMMA OneTaskChanges ==
  ASSUME task \in [Tasks -> TaskStates], TasksSound, NEW t \in Tasks, NEW m \in TaskStates,
         task' = [task EXCEPT ![t] = m], TaskSound(m, OnDuty', row'), OnDuty \subseteq OnDuty',
         \A c \in Cards, e \in Employees : row[c][e] # "none" => row'[c][e] # "none"
  PROVE  task' \in [Tasks -> TaskStates] /\ TasksSound'
<1>1. task' \in [Tasks -> TaskStates]
  OBVIOUS
<1>2. ASSUME NEW u \in Tasks
      PROVE  TaskSound(task'[u], OnDuty', row')
  <2>1. CASE u = t
    BY <2>1
  <2>2. CASE u # t
    <3>1. task'[u] = task[u] /\ task[u] \in TaskStates /\ TaskSound(task[u], OnDuty, row)
      BY <2>2 DEF TasksSound
    <3> QED
      BY <3>1, TaskFields DEF TaskSound
  <2> QED
    BY <2>1, <2>2
<1> QED
  BY <1>1, <1>2 DEF TasksSound

------------------------------------------------------------------------------
(* Each step keeps the invariant *)

LEMMA AlertsIInvInitially == AlertsInit => AlertsIInv
<1> SUFFICES ASSUME AlertsInit
             PROVE  AlertsIInv
  OBVIOUS
<1>1. SessionTypeOK
  BY DEF AlertsInit, SessionInit, SessionTypeOK
<1>2. /\ section \in [Sections -> {"planned", "viewed", "approved", "tracked", "over"}]
      /\ position \in [Employees -> Places \cup {Nowhere}]
      /\ place \in [Cards -> Places \cup {"unknown", Nowhere}]
      /\ row \in [Cards -> [Employees -> {"none", "unread", "read"}]]
  BY DEF AlertsInit
<1>3. /\ receipts \in [Cards -> 0..MaxReceipts] /\ saved \in [Cards -> 0..MaxReceipts]
      /\ queue \in [Cards -> 0..MaxReceipts] /\ mishaps \in 0..MaxMishaps
  BY DEF AlertsInit
<1>4. /\ task \in [Tasks -> TaskStates] /\ heard \subseteq Tokens \X Cards
      /\ fresh \subseteq Cards /\ unheard \subseteq Cards \X Sections
  BY IdleIsSound DEF AlertsInit
<1>5. Counted /\ ListedOnDuty /\ PushedIsListed
  BY DEF AlertsInit, Counted, ListedOnDuty, PushedIsListed
<1>6. TasksSound
  BY IdleIsSound DEF AlertsInit, TasksSound
<1> QED
  BY <1>1, <1>2, <1>3, <1>4, <1>5, <1>6 DEF AlertsIInv, AlertsTypeOK

\* A step that leaves the duties, the tasks, the rows and the pushes alone.
LEMMA Outside ==
  ASSUME AlertsIInv, UNCHANGED <<section, task, row, heard>>, AlertsTypeOK', Counted'
  PROVE  AlertsIInv'
BY DEF AlertsIInv, TasksSound, TaskSound, OnDuty, ListedOnDuty, PushedIsListed, ListedCards

LEMMA SurroundingsSound ==
  ASSUME AlertsIInv, Tablets \/ \E e \in Employees : Moves(e)
  PROVE  AlertsIInv'
<1>1. SessionTypeOK'
  <2>1. ASSUME NEW e \in Employees, SignIn(e)
        PROVE  SessionTypeOK'
    BY <2>1 DEF SignIn, SessionTypeOK, AlertsIInv, AlertsTypeOK
  <2>2. ASSUME NEW k \in Tokens, Join(k) \/ Leave(k)
        PROVE  SessionTypeOK'
    BY <2>2 DEF Join, Leave, SessionTypeOK, AlertsIInv, AlertsTypeOK
  <2>3. CASE UNCHANGED sessionVars
    BY <2>3 DEF sessionVars, SessionTypeOK, AlertsIInv, AlertsTypeOK
  <2> QED
    BY <2>1, <2>2, <2>3 DEF Tablets, SessionNext, Moves
<1>2. position' \in [Employees -> Places \cup {Nowhere}]
  BY DEF Tablets, Moves, AlertsIInv, AlertsTypeOK
<1>3. UNCHANGED <<section, cardVars, task, row, heard, fresh, unheard, mishaps>>
  BY DEF Tablets, Moves
<1>4. AlertsTypeOK' /\ Counted'
  BY <1>1, <1>2, <1>3 DEF AlertsIInv, AlertsTypeOK, Counted, cardVars
<1> QED
  BY <1>3, <1>4, Outside

LEMMA SectionMovesSound ==
  ASSUME AlertsIInv, NEW s \in Sections, SectionMoves(s)
  PROVE  AlertsIInv'
<1>1. UNCHANGED <<sessionVars, position, cardVars, task, row, heard, fresh, unheard, mishaps>>
  BY DEF SectionMoves
<1>2. section' \in [Sections -> {"planned", "viewed", "approved", "tracked", "over"}]
  BY DEF SectionMoves, AlertsIInv, AlertsTypeOK
<1>3. \A z \in Sections : section[z] \notin {"planned", "viewed"} => section'[z] \notin {"planned", "viewed"}
  BY DEF SectionMoves, AlertsIInv, AlertsTypeOK
<1>4. OnDuty \subseteq OnDuty'
  BY <1>3 DEF OnDuty
<1>5. AlertsTypeOK' /\ Counted'
  BY <1>1, <1>2 DEF AlertsIInv, AlertsTypeOK, Counted, SessionTypeOK, sessionVars, cardVars
<1>6. TasksSound'
  BY <1>1, <1>4 DEF AlertsIInv, TasksSound, TaskSound
<1>7. ListedOnDuty' /\ PushedIsListed'
  BY <1>1, <1>4 DEF AlertsIInv, ListedOnDuty, PushedIsListed, ListedCards
<1> QED
  BY <1>5, <1>6, <1>7 DEF AlertsIInv

LEMMA ReceiptSound ==
  ASSUME AlertsIInv, NEW c \in Cards, Receive(c) \/ Enqueue(c)
  PROVE  AlertsIInv'
<1>1. /\ receipts \in [Cards -> 0..MaxReceipts] /\ saved \in [Cards -> 0..MaxReceipts]
      /\ queue \in [Cards -> 0..MaxReceipts] /\ saved[c] + queue[c] <= receipts[c]
  BY DEF AlertsIInv, AlertsTypeOK, Counted
<1>2. UNCHANGED <<sessionVars, section, position, task, row, heard, unheard, mishaps>>
  BY DEF Receive, Enqueue
<1>3. CASE Receive(c)
  <2>1. PICK p \in Places \cup {Nowhere} : place' = [place EXCEPT ![c] = p]
    BY <1>3 DEF Receive
  <2>2. /\ receipts' = [receipts EXCEPT ![c] = @ + 1] /\ receipts[c] < MaxReceipts
        /\ saved' = [saved EXCEPT ![c] = @ + 1] /\ queue' = queue /\ fresh' = fresh \cup {c}
    BY <1>3 DEF Receive
  <2>3. receipts' \in [Cards -> 0..MaxReceipts] /\ saved' \in [Cards -> 0..MaxReceipts]
    BY <1>1, <2>2
  <2>4. AlertsTypeOK'
    BY <1>2, <2>1, <2>2, <2>3 DEF AlertsIInv, AlertsTypeOK, SessionTypeOK, sessionVars
  <2>5. Counted'
    BY <1>1, <2>1, <2>2 DEF AlertsIInv, AlertsTypeOK, Counted
  <2> QED
    BY <1>2, <2>4, <2>5, Outside
<1>4. CASE Enqueue(c)
  <2>1. /\ saved' = [saved EXCEPT ![c] = @ - 1] /\ queue' = [queue EXCEPT ![c] = @ + 1] /\ saved[c] > 0
        /\ UNCHANGED <<place, receipts, fresh>>
    BY <1>4 DEF Enqueue
  <2>2. saved' \in [Cards -> 0..MaxReceipts] /\ queue' \in [Cards -> 0..MaxReceipts]
    BY <1>1, <2>1
  <2>3. AlertsTypeOK'
    BY <1>2, <2>1, <2>2 DEF AlertsIInv, AlertsTypeOK, SessionTypeOK, sessionVars
  <2>4. Counted'
    BY <1>1, <2>1 DEF AlertsIInv, Counted, AlertsTypeOK
  <2> QED
    BY <1>2, <2>3, <2>4, Outside
<1> QED
  BY <1>3, <1>4

\* A message or a call is lost, or a process killed: what the crews would have heard is noted.
LEMMA LosesSound ==
  ASSUME AlertsIInv, NEW lost \in SUBSET (Cards \X Sections), Loses(lost), queue' = queue,
         saved' \in [Cards -> 0..MaxReceipts], \A c \in Cards : saved'[c] <= saved[c],
         task' \in [Tasks -> TaskStates], TasksSound'
  PROVE  AlertsIInv'
<1>1. /\ UNCHANGED <<sessionVars, section, position, place, receipts, row, heard, fresh>>
      /\ mishaps' \in 0..MaxMishaps /\ unheard' \subseteq Cards \X Sections
  BY DEF Loses, AlertsIInv, AlertsTypeOK
<1>2. AlertsTypeOK'
  BY <1>1 DEF AlertsIInv, AlertsTypeOK, SessionTypeOK, sessionVars
<1>3. Counted'
  <2> SUFFICES ASSUME NEW c \in Cards
               PROVE  /\ saved'[c] + queue'[c] <= receipts'[c]
                      /\ receipts'[c] > 0 => place'[c] \in Places \cup {Nowhere}
    BY DEF Counted
  <2>1. /\ saved[c] \in Nat /\ saved'[c] \in Nat /\ queue[c] \in Nat /\ receipts[c] \in Nat
        /\ saved[c] + queue[c] <= receipts[c] /\ saved'[c] <= saved[c]
        /\ receipts[c] > 0 => place[c] \in Places \cup {Nowhere}
    BY DEF AlertsIInv, AlertsTypeOK, Counted
  <2> QED
    BY <1>1, <2>1
<1>4. ListedOnDuty' /\ PushedIsListed'
  BY <1>1 DEF AlertsIInv, ListedOnDuty, PushedIsListed, ListedCards, OnDuty
<1> QED
  BY <1>2, <1>3, <1>4 DEF AlertsIInv

LEMMA ReceiptDiesSound ==
  ASSUME AlertsIInv, NEW c \in Cards, ReceiptDies(c)
  PROVE  AlertsIInv'
<1>1. /\ saved' = [saved EXCEPT ![c] = @ - 1] /\ saved[c] > 0 /\ saved \in [Cards -> 0..MaxReceipts]
      /\ UNCHANGED <<queue, task>> /\ Loses({c} \X Sections)
  BY DEF ReceiptDies, AlertsIInv, AlertsTypeOK
<1>2. saved' \in [Cards -> 0..MaxReceipts] /\ \A d \in Cards : saved'[d] <= saved[d]
  BY <1>1
<1>3. TasksSound'
  BY <1>1 DEF Loses, AlertsIInv, TasksSound, OnDuty
<1>4. task' \in [Tasks -> TaskStates] /\ {c} \X Sections \in SUBSET (Cards \X Sections)
  BY <1>1 DEF AlertsIInv, AlertsTypeOK
<1> QED
  BY <1>1, <1>2, <1>3, <1>4, LosesSound

LEMMA TakeSound ==
  ASSUME AlertsIInv, NEW t \in Tasks, NEW c \in Cards, Take(t, c)
  PROVE  AlertsIInv'
<1> DEFINE m == IF place[c] = Nowhere THEN IdleTask ELSE [pc |-> "load", card |-> c, place |-> place[c]]
<1>1. /\ task' = [task EXCEPT ![t] = m] /\ queue' = [queue EXCEPT ![c] = @ - 1] /\ queue[c] > 0
      /\ fresh' = fresh \ {c}
      /\ UNCHANGED <<sessionVars, section, position, place, receipts, saved, row, heard, unheard, mishaps>>
  BY DEF Take
<1>2. /\ receipts \in [Cards -> 0..MaxReceipts] /\ saved \in [Cards -> 0..MaxReceipts]
      /\ queue \in [Cards -> 0..MaxReceipts] /\ saved[c] + queue[c] <= receipts[c]
      /\ receipts[c] > 0 => place[c] \in Places \cup {Nowhere}
  BY DEF AlertsIInv, AlertsTypeOK, Counted
<1>3. queue' \in [Cards -> 0..MaxReceipts] /\ place[c] \in Places \cup {Nowhere}
  BY <1>1, <1>2
<1>4. m \in TaskStates /\ TaskSound(m, OnDuty', row')
  BY <1>3, IdleIsSound DEF TaskStates, TaskSound
<1>5. task' \in [Tasks -> TaskStates] /\ TasksSound'
  BY <1>1, <1>4, OneTaskChanges DEF AlertsIInv, AlertsTypeOK, OnDuty
<1>6. AlertsTypeOK'
  BY <1>1, <1>3, <1>5 DEF AlertsIInv, AlertsTypeOK, SessionTypeOK, sessionVars
<1>7. Counted'
  BY <1>1, <1>2 DEF AlertsIInv, AlertsTypeOK, Counted
<1>8. ListedOnDuty' /\ PushedIsListed'
  BY <1>1 DEF AlertsIInv, ListedOnDuty, PushedIsListed, ListedCards, OnDuty
<1> QED
  BY <1>5, <1>6, <1>7, <1>8 DEF AlertsIInv

\* A task goes on without a row or a push.
LEMMA QuietStepSound ==
  ASSUME AlertsIInv, NEW t \in Tasks, NEW m \in TaskStates, Steps(t, m), TaskSound(m, OnDuty, row),
         UNCHANGED <<row, heard>>
  PROVE  AlertsIInv'
<1>1. /\ task' = [task EXCEPT ![t] = m]
      /\ UNCHANGED <<sessionVars, section, position, cardVars, fresh, unheard, mishaps>>
  BY DEF Steps
<1>2. task' \in [Tasks -> TaskStates] /\ TasksSound'
  BY <1>1, OneTaskChanges DEF AlertsIInv, AlertsTypeOK, OnDuty
<1>3. AlertsTypeOK' /\ Counted'
  BY <1>1, <1>2 DEF AlertsIInv, AlertsTypeOK, Counted, SessionTypeOK, sessionVars, cardVars
<1>4. ListedOnDuty' /\ PushedIsListed'
  BY <1>1 DEF AlertsIInv, ListedOnDuty, PushedIsListed, ListedCards, OnDuty
<1> QED
  BY <1>2, <1>3, <1>4 DEF AlertsIInv

LEMMA LoadSectionsSound ==
  ASSUME AlertsIInv, NEW t \in Tasks, LoadSections(t)
  PROVE  AlertsIInv'
<1> DEFINE found == {s \in Sections : section[s] \in {"approved", "tracked"}}
           crew == UNION {Crew[s] : s \in found}
<1>1. task[t] \in TaskStates /\ task[t].pc = "load"
  BY DEF LoadSections, AlertsIInv, AlertsTypeOK
<1>2. task[t].card \in Cards /\ task[t].place \in Places
  BY <1>1, TaskFields
<1>3. \A e \in crew : e \in OnDuty
  BY DEF OnDuty
<1>4. crew \in SUBSET Employees /\ crew \cup {} \subseteq OnDuty
  BY <1>3 DEF OnDuty
<1>5. Steps(t, Asking(task[t].card, task[t].place, found, crew, {})) /\ UNCHANGED <<row, heard>>
  BY DEF LoadSections
<1> QED
  BY <1>2, <1>4, <1>5, AskingIsSound, QuietStepSound

\* One section has been asked for: what is found of it is of the crews that were loaded.
LEMMA FoundIsSound ==
  ASSUME AlertsIInv, NEW t \in Tasks, NEW s \in Sections, task[t].pc = "ask",
         NEW close \in SUBSET task[t].crew
  PROVE  Found(t, s, close) \in TaskStates /\ TaskSound(Found(t, s, close), OnDuty, row)
<1>1. task[t] \in TaskStates /\ TaskSound(task[t], OnDuty, row)
  BY DEF AlertsIInv, AlertsTypeOK, TasksSound
<1>2. /\ task[t].card \in Cards /\ task[t].place \in Places /\ task[t].todo \in SUBSET Sections
      /\ task[t].crew \in SUBSET Employees /\ task[t].near \in SUBSET Employees
      /\ task[t].crew \cup task[t].near \subseteq OnDuty
  BY <1>1, TaskFields DEF TaskSound
<1> QED
  BY <1>2, AskingIsSound DEF Found

LEMMA AskSectionSound ==
  ASSUME AlertsIInv, NEW t \in Tasks, NEW s \in Sections, AskSection(t, s)
  PROVE  AlertsIInv'
<1>1. PICK close \in SUBSET task[t].crew : Steps(t, Found(t, s, close))
  <2>1. PICK answered \in {TRUE, FALSE} :
          Steps(t, Found(t, s, {e \in Crew[s] \cap task[t].crew :
                                  answered /\ position[e] = task[t].place}))
    BY DEF AskSection
  <2>2. {e \in Crew[s] \cap task[t].crew : answered /\ position[e] = task[t].place}
          \in SUBSET task[t].crew
    OBVIOUS
  <2> QED
    BY <2>1, <2>2
<1>2. Found(t, s, close) \in TaskStates /\ TaskSound(Found(t, s, close), OnDuty, row)
  BY FoundIsSound DEF AskSection
<1> QED
  BY <1>1, <1>2, QuietStepSound DEF AskSection

LEMMA AskFailsSound ==
  ASSUME AlertsIInv, NEW t \in Tasks, NEW s \in Sections, AskFails(t, s)
  PROVE  AlertsIInv'
<1>1. Found(t, s, {}) \in TaskStates /\ TaskSound(Found(t, s, {}), OnDuty, row)
  BY FoundIsSound DEF AskFails
<1>2. /\ task' = [task EXCEPT ![t] = Found(t, s, {})] /\ Loses({<<task[t].card, s>>})
      /\ UNCHANGED <<saved, queue>>
  BY DEF AskFails
<1>3. UNCHANGED <<section, row>>
  BY <1>2 DEF Loses
<1>4. task' \in [Tasks -> TaskStates] /\ TasksSound'
  BY <1>1, <1>2, <1>3, OneTaskChanges DEF AlertsIInv, AlertsTypeOK, OnDuty
<1>5. <<task[t].card, s>> \in Cards \X Sections
  BY TaskFields DEF AskFails, AlertsIInv, AlertsTypeOK
<1>6. saved' \in [Cards -> 0..MaxReceipts] /\ \A c \in Cards : saved'[c] <= saved[c]
  BY <1>2 DEF AlertsIInv, AlertsTypeOK
<1> QED
  BY <1>2, <1>4, <1>5, <1>6, LosesSound

LEMMA TaskDiesSound ==
  ASSUME AlertsIInv, NEW t \in Tasks, TaskDies(t)
  PROVE  AlertsIInv'
<1>1. /\ task' = [task EXCEPT ![t] = IdleTask] /\ Loses({task[t].card} \X Sections)
      /\ UNCHANGED <<saved, queue>>
  BY DEF TaskDies
<1>2. UNCHANGED <<section, row>>
  BY <1>1 DEF Loses
<1>3. task' \in [Tasks -> TaskStates] /\ TasksSound'
  BY <1>1, <1>2, IdleIsSound, OneTaskChanges DEF AlertsIInv, AlertsTypeOK, OnDuty
<1>4. task[t].card \in Cards
  BY TaskFields DEF TaskDies, AlertsIInv, AlertsTypeOK
<1>5. saved' \in [Cards -> 0..MaxReceipts] /\ \A c \in Cards : saved'[c] <= saved[c]
  BY <1>1 DEF AlertsIInv, AlertsTypeOK
<1>6. {task[t].card} \X Sections \in SUBSET (Cards \X Sections)
  BY <1>4
<1> QED
  BY <1>1, <1>3, <1>5, <1>6, LosesSound

\* The row is written before the push, and only for an employee found.
LEMMA RecordSound ==
  ASSUME AlertsIInv, NEW t \in Tasks, NEW e \in Employees, Record(t, e)
  PROVE  AlertsIInv'
<1> DEFINE c == task[t].card
           m == [pc |-> "push", card |-> c, near |-> task[t].near \ {e}, to |-> e]
<1>1. /\ task[t] \in TaskStates /\ TaskSound(task[t], OnDuty, row) /\ task[t].pc = "alert"
      /\ e \in task[t].near
  BY DEF Record, AlertsIInv, AlertsTypeOK, TasksSound
<1>2. c \in Cards /\ task[t].near \in SUBSET Employees /\ task[t].near \subseteq OnDuty
  BY <1>1, TaskFields DEF TaskSound
<1>3. /\ row' = [row EXCEPT ![c][e] = IF @ = "none" THEN "unread" ELSE @] /\ heard' = heard
      /\ task' = [task EXCEPT ![t] = m]
      /\ UNCHANGED <<sessionVars, section, position, cardVars, fresh, unheard, mishaps>>
  BY DEF Record, Steps
<1>4. /\ row' \in [Cards -> [Employees -> {"none", "unread", "read"}]] /\ row'[c][e] # "none"
      /\ \A d \in Cards, f \in Employees : row[d][f] # "none" => row'[d][f] # "none"
      /\ \A d \in Cards, f \in Employees : row'[d][f] # "none" => row[d][f] # "none" \/ f = e
  BY <1>2, <1>3 DEF AlertsIInv, AlertsTypeOK
<1>5. OnDuty' = OnDuty
  BY <1>3 DEF OnDuty
<1>6. m \in TaskStates /\ TaskSound(m, OnDuty', row')
  BY <1>1, <1>2, <1>4, <1>5 DEF TaskStates, TaskSound
<1>7. task' \in [Tasks -> TaskStates] /\ TasksSound'
  BY <1>3, <1>4, <1>5, <1>6, OneTaskChanges DEF AlertsIInv, AlertsTypeOK
<1>8. AlertsTypeOK' /\ Counted'
  BY <1>3, <1>4, <1>7 DEF AlertsIInv, AlertsTypeOK, Counted, SessionTypeOK, sessionVars, cardVars
<1>9. ListedOnDuty'
  BY <1>1, <1>2, <1>4, <1>5 DEF AlertsIInv, ListedOnDuty
<1>10. PushedIsListed'
  BY <1>3, <1>4 DEF AlertsIInv, PushedIsListed, ListedCards, Tokens
<1> QED
  BY <1>7, <1>8, <1>9, <1>10 DEF AlertsIInv

LEMMA PushSound ==
  ASSUME AlertsIInv, NEW t \in Tasks, Push(t)
  PROVE  AlertsIInv'
<1> DEFINE c == task[t].card
           m == Alerting(c, task[t].near)
<1>1. task[t] \in TaskStates /\ TaskSound(task[t], OnDuty, row) /\ task[t].pc = "push"
  BY DEF Push, AlertsIInv, AlertsTypeOK, TasksSound
<1>2. /\ c \in Cards /\ task[t].near \in SUBSET Employees /\ task[t].near \subseteq OnDuty
      /\ task[t].to \in Employees /\ row[c][task[t].to] # "none"
  BY <1>1, TaskFields DEF TaskSound
<1>3. /\ heard' = heard \cup ({k \in joined : k[1] = task[t].to} \X {c}) /\ row' = row
      /\ task' = [task EXCEPT ![t] = m]
      /\ UNCHANGED <<sessionVars, section, position, cardVars, fresh, unheard, mishaps>>
  BY DEF Push, Steps
<1>4. m \in TaskStates /\ TaskSound(m, OnDuty, row)
  BY <1>2, AlertingIsSound
<1>5. task' \in [Tasks -> TaskStates] /\ TasksSound'
  BY <1>3, <1>4, OneTaskChanges DEF AlertsIInv, AlertsTypeOK, OnDuty
<1>6. heard' \subseteq Tokens \X Cards
  BY <1>2, <1>3 DEF AlertsIInv, AlertsTypeOK, SessionTypeOK
<1>7. AlertsTypeOK' /\ Counted'
  BY <1>3, <1>5, <1>6 DEF AlertsIInv, AlertsTypeOK, Counted, SessionTypeOK, sessionVars, cardVars
<1>8. ListedOnDuty' /\ PushedIsListed'
  BY <1>2, <1>3 DEF AlertsIInv, ListedOnDuty, PushedIsListed, ListedCards, OnDuty
<1> QED
  BY <1>5, <1>7, <1>8 DEF AlertsIInv

LEMMA ReadSound ==
  ASSUME AlertsIInv, NEW k \in Tokens, NEW c \in Cards, Read(k, c)
  PROVE  AlertsIInv'
<1>1. /\ row' = [row EXCEPT ![c][k[1]] = "read"] /\ row[c][k[1]] = "unread" /\ k[1] \in Employees
      /\ UNCHANGED <<sessionVars, section, position, cardVars, task, heard, fresh, unheard, mishaps>>
  BY DEF Read, Tokens
<1>2. /\ row' \in [Cards -> [Employees -> {"none", "unread", "read"}]]
      /\ \A d \in Cards, f \in Employees : row[d][f] # "none" <=> row'[d][f] # "none"
  BY <1>1 DEF AlertsIInv, AlertsTypeOK
<1>3. AlertsTypeOK' /\ Counted'
  BY <1>1, <1>2 DEF AlertsIInv, AlertsTypeOK, Counted, SessionTypeOK, sessionVars, cardVars
<1>4. ListedOnDuty' /\ PushedIsListed'
  BY <1>1, <1>2 DEF AlertsIInv, ListedOnDuty, PushedIsListed, ListedCards, OnDuty, Tokens
<1>5. TasksSound'
  <2> SUFFICES ASSUME NEW t \in Tasks
               PROVE  TaskSound(task[t], OnDuty, row')
    BY <1>1 DEF TasksSound, OnDuty
  <2>1. task[t] \in TaskStates /\ TaskSound(task[t], OnDuty, row)
    BY DEF AlertsIInv, AlertsTypeOK, TasksSound
  <2> QED
    BY <1>2, <2>1, TaskFields DEF TaskSound
<1> QED
  BY <1>3, <1>4, <1>5 DEF AlertsIInv

LEMMA AlertsIInvPreserved == AlertsIInv /\ [AlertsNext]_alertsVars => AlertsIInv'
<1> SUFFICES ASSUME AlertsIInv, [AlertsNext]_alertsVars
             PROVE  AlertsIInv'
  OBVIOUS
<1>1. CASE UNCHANGED alertsVars
  <2>1. UNCHANGED <<section, task, row, heard>> /\ AlertsTypeOK' /\ Counted'
    BY <1>1 DEF alertsVars, sessionVars, cardVars, AlertsIInv, AlertsTypeOK, SessionTypeOK, Counted
  <2> QED
    BY <2>1, Outside
<1>2. ASSUME NEW t \in Tasks, TaskGoesOn(t) \/ TaskDies(t)
      PROVE  AlertsIInv'
  BY <1>2, LoadSectionsSound, PushSound, AskSectionSound, RecordSound, TaskDiesSound DEF TaskGoesOn
<1>3. ASSUME NEW k \in Tokens, NEW c \in Cards, ReadByCall(k, c) \/ ReadBySocket(k, c)
      PROVE  AlertsIInv'
  BY <1>3, ReadSound DEF ReadByCall, ReadBySocket
<1> QED
  BY <1>1, <1>2, <1>3, SurroundingsSound, SectionMovesSound, ReceiptSound, ReceiptDiesSound, TakeSound,
     AskFailsSound DEF AlertsNext

LEMMA AlertsIInvHolds == AlertsSpec => []AlertsIInv
  BY AlertsIInvInitially, AlertsIInvPreserved, PTL DEF AlertsSpec

------------------------------------------------------------------------------
(* The theorems *)

\* Whoever was pushed a card has it in the list (get_or_create before group_send), and a card is
\* listed only for crews of days that were approved or opened, whatever overlaps, fails or is resent.
THEOREM ConsistentHolds == AlertsSpec => []AlertsConsistent
<1>1. AlertsIInv => AlertsConsistent
  BY DEF AlertsIInv, AlertsConsistent, OnlyApprovedCrews, ListedOnDuty, ListedCards, OnDuty
<1> QED
  BY <1>1, AlertsIInvHolds, PTL

==============================================================================
