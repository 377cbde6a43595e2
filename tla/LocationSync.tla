----------------------------- MODULE LocationSync -----------------------------
(***************************************************************************)
(* Locations (polygons) and their points, and the copies of them the       *)
(* location service keeps.  Administrators edit both through               *)
(* directory/views/location.py; the management command sync_thg_locations  *)
(* imports polygons of an external system (services/thg_iiv_sync.py).      *)
(* Whoever has saved a row sends it to the service with a call of its own  *)
(* (services/microservice.py, services/grpc_client.py), an error of which  *)
(* is only logged; nobody tells the service of a deletion, and PATCH and   *)
(* the admin site send nothing.  A location need not have an organization: *)
(* its creator may have none, and the deletion of an organization leaves   *)
(* its locations without; the service refuses such a location.             *)
(*                                                                         *)
(* The content of a row is abstracted to the number of the save that       *)
(* wrote it.  Views load a row, then save all of it: Django updates the    *)
(* row, or inserts it when the update finds none.                          *)
(***************************************************************************)
EXTENDS Integers, FiniteSets

CONSTANTS
  Requests,     \* request threads, and runs of the import command
  Locations,    \* ids of Location rows
  Points,       \* ids of LocationPoint rows
  Items,        \* polygons of the external system
  Organizations,\* ids of Organization rows
  None,         \* no item, no location, no organization
  ByAdminSite,  \* locations also edited in the admin site, which sends nothing
  MaxSaves,     \* bound: rows written
  MaxFailures   \* bound: lost calls

ASSUME SyncAssumption ==
  /\ ByAdminSite \subseteq Locations
  /\ None \notin Locations \cup Items \cup Organizations
  /\ MaxSaves \in Nat /\ MaxFailures \in Nat

VARIABLES
  loc,          \* loc[l]     : the save that wrote location l, 0 if there is no row
  source,       \* source[l]  : the item l was imported from, or None
  org,          \* org[l]     : its organization, None also if there is no row
  orgs,         \* the organizations there are
  point,        \* point[p]   : the save that wrote point p, 0 if there is no row
  home,         \* home[p]    : its location, None if id p was never used
  used,         \* location ids given out so far
  knownLoc,     \* knownLoc[l]   : the save whose content the service has for l, 0 if none
  knownPoint,   \* knownPoint[p] : the same for points
  req,          \* req[r]     : what thread r is doing
  saves,        \* rows written so far
  failures      \* calls lost so far, or given up because the boundary cannot be read

rows  == <<loc, source, org, orgs, point, home, used>>
known == <<knownLoc, knownPoint>>
vars  == <<rows, known, req, saves, failures>>

Versions == 0 .. MaxSaves
Owner    == Organizations \cup {None}
Idle     == [pc |-> "idle"]

\* A thread holds its next step, the id of the row it works on, the organization it loaded,
\* the save it made of it and, for an import, its organization, the items left and the
\* locations it found for the items.
Request ==
  {Idle}
    \cup [pc : {"loc.put", "loc.patch"}, id : Locations, org : Owner]
    \cup [pc : {"loc.send"}, id : Locations, version : Versions, org : Owner,
          todo : SUBSET Items, seen : [Items -> Locations \cup {None}]]
    \cup [pc : {"point.insert"}, id : Locations]
    \cup [pc : {"point.save"}, id : Points]
    \cup [pc : {"point.send"}, id : Points, version : Versions]
    \cup [pc : {"import"}, org : Owner, todo : SUBSET Items, seen : [Items -> Locations \cup {None}]]

TypeOK ==
  /\ loc    \in [Locations -> Versions]
  /\ source \in [Locations -> Items \cup {None}]
  /\ org    \in [Locations -> Owner]
  /\ orgs   \subseteq Organizations
  /\ point  \in [Points -> Versions]
  /\ home   \in [Points -> Locations \cup {None}]
  /\ used   \subseteq Locations
  /\ knownLoc   \in [Locations -> Versions]
  /\ knownPoint \in [Points -> Versions]
  /\ req    \in [Requests -> Request]
  /\ saves  \in Versions
  /\ failures \in 0 .. MaxFailures

Init ==
  /\ loc        = [l \in Locations |-> 0]
  /\ source     = [l \in Locations |-> None]
  /\ org        = [l \in Locations |-> None]
  /\ orgs       = Organizations
  /\ point      = [p \in Points |-> 0]
  /\ home       = [p \in Points |-> None]
  /\ used       = {}
  /\ knownLoc   = [l \in Locations |-> 0]
  /\ knownPoint = [p \in Points |-> 0]
  /\ req        = [r \in Requests |-> Idle]
  /\ saves      = 0
  /\ failures   = 0

-----------------------------------------------------------------------------
Becomes(r, m) == req' = [req EXCEPT ![r] = m]
At(r, step)   == req[r].pc = step
NoItems       == [i \in Items |-> None]

\* A row is written: its content is that of the next save.
Stamp == saves < MaxSaves /\ saves' = saves + 1

\* The row of l is written with item i as its source and o as its organization; the unique
\* constraint on the source refuses a second row of an item, the foreign key an organization
\* that is gone.
Write(l, i, o) ==
  /\ \A m \in Locations \ {l} : loc[m] > 0 /\ i # None => source[m] # i
  /\ o \in orgs \cup {None}
  /\ loc'    = [loc EXCEPT ![l] = saves + 1]
  /\ source' = [source EXCEPT ![l] = i]
  /\ org'    = [org EXCEPT ![l] = o]
  /\ used'   = used \cup {l}
  /\ UNCHANGED <<orgs, point, home>>

Refused(l, i, o) ==
  \/ i # None /\ \E m \in Locations \ {l} : loc[m] > 0 /\ source[m] = i
  \/ o \notin orgs \cup {None}

Sending(l, o, todo, seen) ==
  [pc |-> "loc.send", id |-> l, version |-> saves + 1, org |-> o, todo |-> todo, seen |-> seen]

-----------------------------------------------------------------------------
(* Locations.                                                                        *)

\* LocationView.post: the row is inserted with the organization of the user, who may have
\* none, then sent.
CreateLocation(r) ==
  \E l \in Locations \ used, o \in Owner :
    /\ At(r, "idle")
    /\ Stamp /\ Write(l, None, o)
    /\ Becomes(r, Sending(l, o, {}, NoItems))
    /\ UNCHANGED <<known, failures>>

\* LocationDetailView.put and .patch: the row is loaded and the new content validated ...
LoadLocation(r, l, step) ==
  /\ At(r, "idle")
  /\ loc[l] > 0
  /\ Becomes(r, [pc |-> step, id |-> l, org |-> org[l]])
  /\ UNCHANGED <<rows, known, saves, failures>>

\* ... then saved whole, with the organization it was loaded with, which brings a row back
\* that was deleted meanwhile, unless its item has been imported anew or its organization is
\* gone.  Only put sends it: patch is the inherited one.
SaveLocation(r) ==
  LET l == req[r].id
      o == req[r].org
  IN  /\ req[r].pc \in {"loc.put", "loc.patch"}
      /\ \/ /\ Stamp /\ Write(l, source[l], o)
            /\ Becomes(r, IF At(r, "loc.put") THEN Sending(l, o, {}, NoItems) ELSE Idle)
         \/ /\ Refused(l, source[l], o)
            /\ Becomes(r, Idle)
            /\ UNCHANGED <<rows, saves>>
      /\ UNCHANGED <<known, failures>>

\* LocationDetailView.delete, with the points; paligon_delete is never called.
DeleteLocation(l) ==
  /\ loc[l] > 0
  /\ loc'   = [loc EXCEPT ![l] = 0]
  /\ org'   = [org EXCEPT ![l] = None]
  /\ point' = [p \in Points |-> IF home[p] = l THEN 0 ELSE point[p]]
  /\ UNCHANGED <<source, orgs, home, used, known, req, saves, failures>>

\* The admin site writes rows, with any organization or none, and sends nothing.
SaveByAdminSite(l) ==
  /\ l \in ByAdminSite
  /\ loc[l] > 0 \/ l \notin used
  /\ Stamp /\ \E o \in Owner : Write(l, source[l], o)
  /\ UNCHANGED <<known, req, failures>>

\* The service updates its copy or inserts it.
UpdatePaligon(m) == knownLoc' = [knownLoc EXCEPT ![m.id] = m.version]

\* Variant: after a create there is nothing to send.
SendLocation_UpdatesOnly(r) ==
  LET m == req[r]
  IN  /\ At(r, "loc.send")
      /\ knownLoc' = IF m.org = None \/ knownLoc[m.id] = 0 THEN knownLoc
                     ELSE [knownLoc EXCEPT ![m.id] = m.version]
      /\ Becomes(r, IF m.todo = {} THEN Idle
                    ELSE [pc |-> "import", org |-> m.org, todo |-> m.todo, seen |-> m.seen])
      /\ UNCHANGED <<rows, knownPoint, saves, failures>>

\* PaligonCreate with the id of the row: the handler refuses a location without an
\* organization, which is sent as 0, and nothing is stored; otherwise the copy is updated.
\* The call carries what the thread saved, whatever was saved since.  It may be lost, and is
\* not made when the boundary cannot be read.
SendLocation(r) ==
  LET m == req[r]
  IN  /\ At(r, "loc.send")
      /\ \/ m.org # None /\ UpdatePaligon(m) /\ UNCHANGED failures
         \/ m.org = None /\ UNCHANGED <<knownLoc, failures>>
         \/ failures < MaxFailures /\ failures' = failures + 1 /\ UNCHANGED knownLoc
      /\ Becomes(r, IF m.todo = {} THEN Idle
                    ELSE [pc |-> "import", org |-> m.org, todo |-> m.todo, seen |-> m.seen])
      /\ UNCHANGED <<rows, knownPoint, saves>>

-----------------------------------------------------------------------------
(* Organizations.                                                                    *)

\* OrganizationDetailView.delete: its locations are left without (SET_NULL).
DeleteOrganization(o) ==
  /\ o \in orgs
  /\ orgs' = orgs \ {o}
  /\ org'  = [l \in Locations |-> IF org[l] = o THEN None ELSE org[l]]
  /\ UNCHANGED <<loc, source, point, home, used, known, req, saves, failures>>

\* OrganizationDetailView.put of a row loaded before its deletion inserts it again; its
\* locations do not come back to it.  (Any deleted organization may have been loaded.)
ReinsertOrganization(o) ==
  /\ o \in Organizations \ orgs
  /\ orgs' = orgs \cup {o}
  /\ UNCHANGED <<loc, source, org, point, home, used, known, req, saves, failures>>

-----------------------------------------------------------------------------
(* The import.                                                                       *)

\* The command has looked up its organization; sync_locations fetches a layer and looks up
\* the rows it has of its items, once.
BeginImport(r) ==
  /\ At(r, "idle")
  /\ Items # {}
  /\ \E o \in orgs, seen \in [Items -> Locations \cup {None}] :
       /\ \A i \in Items :
            IF \E l \in Locations : loc[l] > 0 /\ source[l] = i
              THEN seen[i] \in Locations /\ loc[seen[i]] > 0 /\ source[seen[i]] = i
              ELSE seen[i] = None
       /\ Becomes(r, [pc |-> "import", org |-> o, todo |-> Items, seen |-> seen])
  /\ UNCHANGED <<rows, known, saves, failures>>

\* Variant: no unique constraint, a second run inserts the item again.
ImportNew_Again(r, i) ==
  LET m == req[r]
  IN  /\ At(r, "import")
      /\ i \in m.todo /\ m.seen[i] = None
      /\ Stamp
      /\ \E l \in Locations \ used :
           /\ loc'    = [loc EXCEPT ![l] = saves + 1]
           /\ source' = [source EXCEPT ![l] = i]
           /\ org'    = [org EXCEPT ![l] = m.org]
           /\ used'   = used \cup {l}
           /\ Becomes(r, Sending(l, m.org, m.todo \ {i}, m.seen))
      /\ UNCHANGED <<orgs, point, home, known, failures>>

\* An item without a row: it is created and sent.  A run that overtook this one, or the
\* deletion of the organization, makes the insertion fail, and with it the command.
ImportNew(r, i) ==
  LET m == req[r]
  IN  /\ At(r, "import")
      /\ i \in m.todo /\ m.seen[i] = None
      /\ \/ /\ Stamp
            /\ \E l \in Locations \ used :
                 Write(l, i, m.org) /\ Becomes(r, Sending(l, m.org, m.todo \ {i}, m.seen))
         \/ /\ Refused(None, i, m.org)
            /\ Becomes(r, Idle)
            /\ UNCHANGED <<rows, saves>>
      /\ UNCHANGED <<known, failures>>

\* An item that has changed, or whose row has another organization: the row loaded at the
\* beginning is saved whole, with the organization of the command, and sent.
ImportChanged(r, i) ==
  LET m == req[r]
      l == m.seen[i]
  IN  /\ At(r, "import")
      /\ i \in m.todo /\ l # None
      /\ \/ /\ Stamp /\ Write(l, i, m.org)
            /\ Becomes(r, Sending(l, m.org, m.todo \ {i}, m.seen))
         \/ /\ Refused(l, i, m.org)
            /\ Becomes(r, Idle)
            /\ UNCHANGED <<rows, saves>>
      /\ UNCHANGED <<known, failures>>

\* An item that has not changed, or is no polygon, is passed over.
ImportSame(r, i) ==
  LET left == req[r].todo \ {i}
  IN  /\ At(r, "import")
      /\ i \in req[r].todo
      /\ Becomes(r, IF left = {} THEN Idle ELSE [req[r] EXCEPT !.todo = left])
      /\ UNCHANGED <<rows, known, saves, failures>>

-----------------------------------------------------------------------------
(* Points.                                                                           *)

\* LocationPointView.post: the location is loaded ...
LoadForPoint(r, l) ==
  /\ At(r, "idle")
  /\ loc[l] > 0
  /\ Becomes(r, [pc |-> "point.insert", id |-> l])
  /\ UNCHANGED <<rows, known, saves, failures>>

\* ... and a point inserted, which the foreign key refuses once the location is gone.
InsertPoint(r) ==
  LET l == req[r].id
  IN  /\ At(r, "point.insert")
      /\ \/ /\ loc[l] > 0
            /\ Stamp
            /\ \E p \in Points :
                 /\ home[p] = None
                 /\ home'  = [home EXCEPT ![p] = l]
                 /\ point' = [point EXCEPT ![p] = saves + 1]
                 /\ Becomes(r, [pc |-> "point.send", id |-> p, version |-> saves + 1])
            /\ UNCHANGED <<loc, source, org, orgs, used>>
         \/ /\ loc[l] = 0
            /\ Becomes(r, Idle)
            /\ UNCHANGED <<rows, saves>>
      /\ UNCHANGED <<known, failures>>

\* LocationPointDetailView.put.
LoadPoint(r, p) ==
  /\ At(r, "idle")
  /\ point[p] > 0
  /\ Becomes(r, [pc |-> "point.save", id |-> p])
  /\ UNCHANGED <<rows, known, saves, failures>>

\* Variant: nothing ties the row to its location.
SavePoint_NoForeignKey(r) ==
  LET p == req[r].id
  IN  /\ At(r, "point.save")
      /\ Stamp
      /\ point' = [point EXCEPT ![p] = saves + 1]
      /\ Becomes(r, [pc |-> "point.send", id |-> p, version |-> saves + 1])
      /\ UNCHANGED <<loc, source, org, orgs, home, used, known, failures>>

\* As for a location, the save brings a deleted row back if its location is there.
SavePoint(r) ==
  LET p == req[r].id
  IN  /\ At(r, "point.save")
      /\ \/ /\ loc[home[p]] > 0
            /\ Stamp
            /\ point' = [point EXCEPT ![p] = saves + 1]
            /\ Becomes(r, [pc |-> "point.send", id |-> p, version |-> saves + 1])
            /\ UNCHANGED <<loc, source, org, orgs, home, used>>
         \/ /\ loc[home[p]] = 0
            /\ Becomes(r, Idle)
            /\ UNCHANGED <<rows, saves>>
      /\ UNCHANGED <<known, failures>>

DeletePoint(p) ==
  /\ point[p] > 0
  /\ point' = [point EXCEPT ![p] = 0]
  /\ UNCHANGED <<loc, source, org, orgs, home, used, known, req, saves, failures>>

\* PointCreate with the id of the row, never 0: the service updates its copy, if it has
\* one.
SendPoint(r) ==
  LET m == req[r]
  IN  /\ At(r, "point.send")
      /\ \/ /\ knownPoint' = [knownPoint EXCEPT ![m.id] = IF @ > 0 THEN m.version ELSE @]
            /\ UNCHANGED failures
         \/ failures < MaxFailures /\ failures' = failures + 1 /\ UNCHANGED knownPoint
      /\ Becomes(r, Idle)
      /\ UNCHANGED <<rows, knownLoc, saves>>

-----------------------------------------------------------------------------
LocationSteps(r) ==
  \/ CreateLocation(r)
  \/ \E l \in Locations, step \in {"loc.put", "loc.patch"} : LoadLocation(r, l, step)
  \/ SaveLocation(r) \/ SendLocation(r)

ImportSteps(r) ==
  BeginImport(r)
    \/ \E i \in Items : ImportNew(r, i) \/ ImportChanged(r, i) \/ ImportSame(r, i)

PointSteps(r) ==
  \/ \E l \in Locations : LoadForPoint(r, l)
  \/ InsertPoint(r)
  \/ \E p \in Points : LoadPoint(r, p)
  \/ SavePoint(r) \/ SendPoint(r)

Next ==
  \/ \E r \in Requests : LocationSteps(r) \/ ImportSteps(r) \/ PointSteps(r)
  \/ \E l \in Locations : DeleteLocation(l) \/ SaveByAdminSite(l)
  \/ \E p \in Points : DeletePoint(p)
  \/ \E o \in Organizations : DeleteOrganization(o) \/ ReinsertOrganization(o)

Spec == Init /\ [][Next]_vars

-----------------------------------------------------------------------------
(* What holds whatever overlaps.                                                     *)

\* "Qayta ishga tushirilsa ... yangilanadi, dublikat yaratilmaydi": runs of the import that
\* overlap, and edits that bring a deleted row back, leave one row of an item.
OneRowPerItem ==
  \A l, m \in Locations :
    loc[l] > 0 /\ loc[m] > 0 /\ source[l] = source[m] /\ source[l] # None => l = m

\* A deletion that overlaps the insertion or the edit of a point leaves no point of a
\* deleted location.
NoOrphanPoints == \A p \in Points : point[p] > 0 => loc[home[p]] > 0

SendingOf(l) == {r \in Requests : At(r, "loc.send") /\ req[r].id = l}

\* As long as no call is lost, the service has a copy of every location that has an
\* organization and that nobody is still sending: a duty can be opened on any of them, those
\* included that lost their organization and got one again, or that an edit brought back.
KnownToService ==
  \A l \in Locations \ ByAdminSite :
    failures = 0 /\ loc[l] > 0 /\ org[l] # None /\ SendingOf(l) = {} => knownLoc[l] > 0

-----------------------------------------------------------------------------
(* What send_point_sync is for.                                                      *)

\* A point that was sent is known to the service.
PointKnownToService ==
  \A p \in Points :
    failures = 0 /\ point[p] > 0
      /\ (\A r \in Requests : At(r, "point.send") => req[r].id # p) => knownPoint[p] > 0
=============================================================================
