------------------------------- MODULE Access -------------------------------
(* Who may do what with the duty days and events of Registry, and which of the lists that officers, *)
(* districts and tablets work with show them.  A paper is a row of either table.  Sorting, pages     *)
(* and the narrowing by query parameters, but for new and archive, are left out.                     *)
EXTENDS Loading

Papers == In("day") \cup In("event")
DistrictOf(x) == db[db[x].organization].district

\* What a request knows of the user who makes it.
Viewer(u) == [roles |-> roles[u], organization |-> db[u].organization, district |-> db[u].district]
Root == [roles |-> {"SUPER_ADMIN"}, organization |-> None, district |-> None]
OfDistrict(v) == v.roles \cap {"DISTRICT_ADMIN", "COLLECTOR"} # {}

CrewOf(s) == {db[k].employee : k \in {x \in In("crew") : db[db[x].assignment].section = s}}
SectionsOf(days) == {s \in In("section") : db[s].day \in days}

------------------------------------------------------------------------------
(* The permission classes *)

IsSuperAdmin(v) == "SUPER_ADMIN" \in v.roles
IsOfficer(v) == IsSuperAdmin(v) \/ ("OFFICER" \in v.roles /\ v.organization # None)
IsCollector(v) == IsSuperAdmin(v) \/ ("COLLECTOR" \in v.roles /\ v.district # None)
IsDistrictAdmin(v) == IsSuperAdmin(v) \/ ("DISTRICT_ADMIN" \in v.roles /\ v.district # None)
IsDistrictLevel(v) == IsSuperAdmin(v) \/ (OfDistrict(v) /\ v.district # None)

------------------------------------------------------------------------------
(* The reviewers' decisions *)

InDistrict(v, x) == IsSuperAdmin(v) \/ DistrictOf(x) = v.district

MayCollect(v, x) == IsCollector(v) /\ InDistrict(v, x) /\ db[x].status = "SUBMITTED"
MayApprove(v, x) == IsDistrictAdmin(v) /\ InDistrict(v, x) /\ db[x].status = "COLLECTED"
MayReject(v, x) ==
  /\ IsCollector(v) \/ IsDistrictAdmin(v)
  /\ InDistrict(v, x)
  /\ db[x].status \in {"SUBMITTED", "COLLECTED"}

------------------------------------------------------------------------------
(* The lists *)

\* Coming or past; today is the reader's.
InView(type, date, today) == IF type = "archive" THEN date < today ELSE date >= today

OwnDays(v) == {d \in In("day") : IsSuperAdmin(v) \/ db[d].organization = v.organization}
OwnEvents(v) == {e \in In("event") : IsSuperAdmin(v) \/ db[e].organization = v.organization}

ListedDays(v, type, today) == {d \in OwnDays(v) : IsOfficer(v) /\ InView(type, db[d].date, today)}
ListedEvents(v, type, today) == {e \in OwnEvents(v) : IsOfficer(v) /\ InView(type, db[e].date, today)}

\* The district's roles may ask for documents, but find those of their own organisation only.
PrintableDays(v) == {d \in OwnDays(v) : IsOfficer(v) \/ IsDistrictLevel(v)}
PrintableEvents(v) == {e \in OwnEvents(v) : IsOfficer(v) \/ IsDistrictLevel(v)}

\* Variant: a collector is shown what is collected.
StatusesFor_Decided(v) == {"COLLECTED", "APPROVED"}
\* Who is both collector and district administrator is treated as the former.
StatusesFor(v) ==
  IF "COLLECTOR" \in v.roles THEN {"SUBMITTED", "COLLECTED", "APPROVED"} ELSE {"COLLECTED", "APPROVED"}

\* A super administrator names the district and is shown every status.
DistrictPapers(v, type, today, district) ==
  {x \in Papers :
     /\ IsDistrictLevel(v) /\ InView(type, db[x].date, today)
     /\ IF IsSuperAdmin(v) THEN district # None /\ DistrictOf(x) = district
        ELSE DistrictOf(x) = v.district /\ db[x].status \in StatusesFor(v)}

\* The days whose details a district may read.
DistrictDetails(v) ==
  {d \in In("day") :
     /\ IsDistrictLevel(v)
     /\ IsSuperAdmin(v) \/ (DistrictOf(d) = v.district /\ db[d].status \in StatusesFor(v))}

ServedBy(u) == {s \in In("section") : u \in CrewOf(s) /\ db[db[s].day].status = "APPROVED"}
DateOf(s) == db[db[s].day].date

\* The tablet's two lists.
MyDuties(u, type, today) == {s \in ServedBy(u) : InView(type, DateOf(s), today)}
TodayDuties(u, today) == {s \in ServedBy(u) : DateOf(s) = today}

\* What a dashboard says is waiting for the user.
Waiting(v) ==
  {x \in Papers :
     /\ OfDistrict(v) /\ v.roles \cap {"SUPER_ADMIN", "OFFICER"} = {} /\ v.district # None
     /\ DistrictOf(x) = v.district
     /\ db[x].status = IF "COLLECTOR" \in v.roles THEN "SUBMITTED" ELSE "COLLECTED"}

------------------------------------------------------------------------------
(* Properties *)

PaperDates == {db[x].date : x \in Papers}

\* Whoever may collect or approve a paper finds it in one of the two lists of its district and may
\* read it; so does who may reject it, but a district administrator one that is not yet collected.
ReviewersFind ==
  \A v \in {Root} \cup {Viewer(u) : u \in In("user")}, district \in In("district"), today \in PaperDates :
    LET new == DistrictPapers(v, "new", today, district)
        archive == DistrictPapers(v, "archive", today, district)
    IN  \A x \in {y \in Papers : DistrictOf(y) = district} :
          \/ MayCollect(v, x) \/ MayApprove(v, x)
          \/ MayReject(v, x) /\ (db[x].status = "SUBMITTED" => IsCollector(v))
          => /\ (x \in new) # (x \in archive)
             /\ Table[x] = "day" => x \in DistrictDetails(v)

\* A user of one role is told to decide what the user may decide, and nothing else.
WaitingIsDecidable ==
  \A u \in In("user") :
    LET v == Viewer(u) IN
    v.roles \in {{"COLLECTOR"}, {"DISTRICT_ADMIN"}} =>
      Waiting(v) = {x \in Papers : MayCollect(v, x) \/ MayApprove(v, x)}

\* An officer may print what the two lists show, and nothing else.
OfficersPrint ==
  \A u \in In("user"), today \in PaperDates :
    LET v == Viewer(u) IN
    IsOfficer(v) =>
      /\ PrintableDays(v) = ListedDays(v, "new", today) \cup ListedDays(v, "archive", today)
      /\ PrintableEvents(v) = ListedEvents(v, "new", today) \cup ListedEvents(v, "archive", today)
===============================================================================
